---- MODULE Spec2Model ----
(***************************************************************************)
(* Budget planner (src/main.py): the token ledger and session resolver,    *)
(* the monthly budget ledger and the variable expense buffer with its      *)
(* finalize operation, as state machines over the persistent store.        *)
(*                                                                         *)
(* Conventions.  Amounts are integers (the Float columns' rounding is not  *)
(* modelled).  `now` is the clock in minutes since 2025-01-01 00:00; two   *)
(* requests at the same value of `now` happen at the same instant.  A JWT  *)
(* is the record of what it signs plus the key that signed it: encoding is *)
(* deterministic, so equal records are equal token strings.                *)
(***************************************************************************)
EXTENDS Integers, Sequences, FiniteSets, TLC

(* ------------------------------ bounds -------------------------------- *)

\* most rows the refresh_tokens table holds in a checked run
MaxLedger == 2
\* greatest id the variable_budget_entries table gives a row in a checked run
MaxRows == 2
\* greatest id the budget_entries table gives a row in a checked run
MaxEntries == 2
\* most finalize requests in flight at once in a checked run
MaxFinalizers == 2
\* most save_budget requests in flight at once in a checked run
MaxSavers == 2

\* the most entries of a ledger the reports are checked on
MaxReportEntries == 2

(* --------------------------- configuration ----------------------------- *)

ACCESS_TOKEN_EXPIRE_MINUTES == 1440
REFRESH_TOKEN_EXPIRE_DAYS == 365
MinutesPerDay == 1440

SECRET_KEY == "SECRET_KEY"
REFRESH_SECRET_KEY == "REFRESH_SECRET_KEY"

(* ------------------------------ users --------------------------------- *)

\* the users table after init_users; hashed_password is modelled by the
\* password it verifies
Users ==
    { [id |-> 1, username |-> "veera",     password |-> "veera7474"],
      [id |-> 2, username |-> "veerababu", password |-> "veera7474"],
      [id |-> 3, username |-> "babu",      password |-> "babu7474"] }

\* Python's None for a User
NoUser == [id |-> 0, username |-> "", password |-> ""]

\* db.query(User).filter(User.username == username).first()
UserByName(username) ==
    IF \E u \in Users : u.username = username
    THEN CHOOSE u \in Users : u.username = username
    ELSE NoUser

\* db.query(User).filter(User.id == user_id).first()
UserById(user_id) ==
    IF \E u \in Users : u.id = user_id
    THEN CHOOSE u \in Users : u.id = user_id
    ELSE NoUser

verify_password(plain_password, hashed_password) ==
    plain_password = hashed_password

(* ------------------------------ tokens -------------------------------- *)

\* an absent cookie (request.cookies.get returns None)
NoToken == [key |-> "", type |-> "", sub |-> "", user_id |-> 0, exp |-> 0]

create_access_token(sub, user_id, t) ==
    [key |-> SECRET_KEY, type |-> "access", sub |-> sub, user_id |-> user_id,
     exp |-> t + ACCESS_TOKEN_EXPIRE_MINUTES]

\* the token create_refresh_token encodes (its ledger row is added by Login)
encode_refresh_token(sub, user_id, t) ==
    [key |-> REFRESH_SECRET_KEY, type |-> "refresh", sub |-> sub,
     user_id |-> user_id,
     exp |-> t + REFRESH_TOKEN_EXPIRE_DAYS * MinutesPerDay]

\* a decode that verifies the signature and never looks at exp
jwt_decode_unexpiring(token, key, t) ==
    token.key = key

\* jwt.decode(token, key): the signature verifies and exp is not in the past;
\* FALSE stands for the JWTError
jwt_decode_ok(token, key, t) ==
    /\ token.key = key
    /\ token.exp >= t


(* ------------------------------- state -------------------------------- *)

VARIABLES
    now,                      \* the clock, in minutes
    refresh_tokens,           \* table refresh_tokens: [user_id, token, is_revoked]
    budget_entries,           \* table budget_entries
    variable_budget_entries,  \* table variable_budget_entries
    finalizers,               \* the finalize requests in flight (interleaved runs)
    savers,                   \* the save_budget requests in flight (interleaved runs)
    last                      \* the last request answered and its response

vars == <<now, refresh_tokens, budget_entries, variable_budget_entries,
          finalizers, savers, last>>

store == <<refresh_tokens, budget_entries, variable_budget_entries>>

(* ----------------------- token service, resolver ----------------------- *)

\* a verify_refresh_token whose ledger lookup leaves out is_revoked == 0
verify_refresh_token_any_row(token, ledger, t) ==
    IF ~ jwt_decode_ok(token, REFRESH_SECRET_KEY, t) THEN NoUser
    ELSE IF token.type # "refresh" THEN NoUser
    ELSE IF ~ \E r \in ledger : r.token = token THEN NoUser
    ELSE UserById(token.user_id)

\* a verify_refresh_token that trusts the signature and asks no ledger
verify_refresh_token_signature_only(token, ledger, t) ==
    IF ~ jwt_decode_ok(token, REFRESH_SECRET_KEY, t) THEN NoUser
    ELSE IF token.type # "refresh" THEN NoUser
    ELSE UserById(token.user_id)

\* verify_refresh_token against ledger state `ledger` at time t
verify_refresh_token(token, ledger, t) ==
    IF ~ jwt_decode_ok(token, REFRESH_SECRET_KEY, t) THEN NoUser
    ELSE IF token.type # "refresh" THEN NoUser
    ELSE IF ~ \E r \in ledger : r.token = token /\ r.is_revoked = 0 THEN NoUser
    ELSE UserById(token.user_id)

\* a resolver that asks the refresh token first and the access token after
get_current_user_refresh_first(cookies, ledger, t) ==
    IF /\ cookies.refresh # NoToken
       /\ verify_refresh_token(cookies.refresh, ledger, t) # NoUser
    THEN LET user == verify_refresh_token(cookies.refresh, ledger, t)
         IN  [user |-> user, via |-> "refresh",
              new_access |-> create_access_token(user.username, user.id, t),
              set_access |-> NoToken]
    ELSE IF /\ cookies.access # NoToken
            /\ jwt_decode_ok(cookies.access, SECRET_KEY, t)
            /\ cookies.access.type = "access"
            /\ cookies.access.sub # ""
    THEN [user |-> UserByName(cookies.access.sub), via |-> "access",
          new_access |-> NoToken, set_access |-> NoToken]
    ELSE [user |-> NoUser, via |-> "none",
          new_access |-> NoToken, set_access |-> NoToken]

\* a resolver whose access path also wants an unrevoked ledger row of the
\* user
get_current_user_asking_ledger(cookies, ledger, t) ==
    IF /\ cookies.access # NoToken
       /\ jwt_decode_ok(cookies.access, SECRET_KEY, t)
       /\ cookies.access.type = "access"
       /\ cookies.access.sub # ""
       /\ \E r \in ledger : /\ r.user_id = cookies.access.user_id
                             /\ r.is_revoked = 0
    THEN [user |-> UserByName(cookies.access.sub), via |-> "access",
          new_access |-> NoToken, set_access |-> NoToken]
    ELSE IF /\ cookies.refresh # NoToken
            /\ verify_refresh_token(cookies.refresh, ledger, t) # NoUser
    THEN LET user == verify_refresh_token(cookies.refresh, ledger, t)
         IN  [user |-> user, via |-> "refresh",
              new_access |-> create_access_token(user.username, user.id, t),
              set_access |-> NoToken]
    ELSE [user |-> NoUser, via |-> "none",
          new_access |-> NoToken, set_access |-> NoToken]

\* get_current_user: the user resolved and the path that resolved it.
\* new_access is the token the refresh path mints; the function returns only
\* the user, so `set_access` (what reaches the response) stays NoToken.
get_current_user(cookies, ledger, t) ==
    IF /\ cookies.access # NoToken
       /\ jwt_decode_ok(cookies.access, SECRET_KEY, t)
       /\ cookies.access.type = "access"
       /\ cookies.access.sub # ""
    THEN [user |-> UserByName(cookies.access.sub), via |-> "access",
          new_access |-> NoToken, set_access |-> NoToken]
    ELSE IF /\ cookies.refresh # NoToken
            /\ verify_refresh_token(cookies.refresh, ledger, t) # NoUser
    THEN LET user == verify_refresh_token(cookies.refresh, ledger, t)
         IN  [user |-> user, via |-> "refresh",
              new_access |-> create_access_token(user.username, user.id, t),
              set_access |-> NoToken]
    ELSE [user |-> NoUser, via |-> "none",
          new_access |-> NoToken, set_access |-> NoToken]

(* ------------------------------ requests ------------------------------ *)

NoCookies == [access |-> NoToken, refresh |-> NoToken]

\* the cookie pair the login that wrote ledger row r put on its response
IssuedCookies(r) ==
    [access  |-> create_access_token(r.token.sub, r.token.user_id,
                     r.token.exp - REFRESH_TOKEN_EXPIRE_DAYS * MinutesPerDay),
     refresh |-> r.token]

\* a pair no login issued: signed with a key that is not the server's
ForgedCookies ==
    [access  |-> [key |-> "forged", type |-> "access", sub |-> "veera",
                  user_id |-> 1, exp |-> 2000000],
     refresh |-> [key |-> "forged", type |-> "refresh", sub |-> "veera",
                  user_id |-> 1, exp |-> 2000000]]

\* what a client can present: nothing, a pair a login issued (whole, or with
\* one cookie dropped, or with the two cookies exchanged), or a forged pair
RequestCookies ==
    {NoCookies, ForgedCookies}
    \cup { IssuedCookies(r) : r \in refresh_tokens }
    \cup { [IssuedCookies(r) EXCEPT !.access = NoToken] : r \in refresh_tokens }
    \cup { [IssuedCookies(r) EXCEPT !.refresh = NoToken] : r \in refresh_tokens }
    \cup { [access |-> IssuedCookies(r).refresh,
            refresh |-> IssuedCookies(r).access] : r \in refresh_tokens }

\* the cookies of the browsers logged in as one of `names`
Sessions(names) ==
    { IssuedCookies(r) : r \in {q \in refresh_tokens : q.token.sub \in names} }

\* a response: the handler, its status, the identity it resolved and how,
\* the cookies it sets or deletes, the stored rows its page shows and the
\* JSON document it returns
NoResponse ==
    [op |-> "none", status |-> 0, uid |-> 0, via |-> "none",
     set_access |-> NoToken, set_refresh |-> NoToken,
     delete_cookies |-> FALSE, shown |-> {}, data |-> <<>>]

Respond(op, status, auth) ==
    [NoResponse EXCEPT !.op = op, !.status = status,
                       !.uid = auth.user.id, !.via = auth.via,
                       !.set_access = auth.set_access]

Unauthenticated == [user |-> NoUser, via |-> "none",
                    new_access |-> NoToken, set_access |-> NoToken]

(* ------------------------------- login -------------------------------- *)

\* a Login whose lookup trusts the password alone (the first user it fits)
authenticate_by_password(username, password) ==
    IF UserByName(username) # NoUser /\ \E u \in Users : u.password = password
    THEN CHOOSE u \in Users : u.password = password
    ELSE NoUser

\* login's lookup and password check: the stored user, or NoUser for the
\* "Invalid username or password" answer
authenticate(username, password) ==
    LET user == UserByName(username) IN
    IF user = NoUser \/ ~ verify_password(password, user.password)
    THEN NoUser
    ELSE user

\* POST /login.  create_refresh_token inserts the ledger row; the token column
\* is unique, so inserting a token string the table already holds raises
\* (500, nothing stored, no cookie set).
Login(username, password) ==
    LET user == authenticate(username, password)
        access  == create_access_token(user.username, user.id, now)
        refresh == encode_refresh_token(user.username, user.id, now)
        answer(status) == [Respond("login", status, Unauthenticated)
                             EXCEPT !.uid = user.id]
    IN
    /\ IF user = NoUser
       THEN /\ last' = answer(200)
            /\ UNCHANGED refresh_tokens
       ELSE IF \E r \in refresh_tokens : r.token = refresh
       THEN /\ last' = answer(500)
            /\ UNCHANGED refresh_tokens
       ELSE /\ Cardinality(refresh_tokens) < MaxLedger
            /\ refresh_tokens' = refresh_tokens \cup
                   { [user_id |-> user.id, token |-> refresh, is_revoked |-> 0] }
            /\ last' = [answer(302) EXCEPT !.set_access = access,
                                           !.set_refresh = refresh]
    /\ UNCHANGED <<now, budget_entries, variable_budget_entries, finalizers, savers>>

(* ------------------------------- logout ------------------------------- *)

\* a revocation that flips the flag of the row instead of setting it
Revoke_flipping(ledger, token) ==
    { IF r.token = token THEN [r EXCEPT !.is_revoked = 1 - @] ELSE r :
        r \in ledger }

\* the ledger after logout's revocation of `token`
Revoke(ledger, token) ==
    { IF r.token = token THEN [r EXCEPT !.is_revoked = 1] ELSE r : r \in ledger }

\* GET /logout
Logout(cookies) ==
    /\ refresh_tokens' =
           IF cookies.refresh # NoToken
           THEN Revoke(refresh_tokens, cookies.refresh)
           ELSE refresh_tokens
    /\ last' = [Respond("logout", 302, Unauthenticated)
                  EXCEPT !.delete_cookies = TRUE]
    /\ UNCHANGED <<now, budget_entries, variable_budget_entries, finalizers, savers>>

(* ---------------------------- a page request --------------------------- *)

\* the rows of query(Model).filter(user_id)
listed(table, user_id) == { r \in table : r.user_id = user_id }

\* GET /budget: the page lists the user's budget entries
budget_page(cookies) ==
    LET auth == get_current_user(cookies, refresh_tokens, now) IN
    /\ last' = IF auth.user = NoUser
               THEN Respond("budget_page", 302, auth)
               ELSE [Respond("budget_page", 200, auth)
                        EXCEPT !.shown = listed(budget_entries, auth.user.id)]
    /\ UNCHANGED <<now, store, finalizers, savers>>

(* -------------------------------- clock -------------------------------- *)

\* instants the clock is observed at: the start, the last minute an access
\* token issued at 0 is accepted and the first it is not, the first minute of
\* February, and the same two minutes for a refresh token issued at 0
TimeGrid == {0, 1440, 1441, 44640, 525600, 525601}

Tick(grid) ==
    /\ \E t \in grid : t > now /\ now' = t
    /\ UNCHANGED <<store, finalizers, savers, last>>

(* ------------------------------- initial ------------------------------- *)

Init ==
    /\ now = 0
    /\ refresh_tokens = {}
    /\ budget_entries = {}
    /\ variable_budget_entries = {}
    /\ finalizers = {}
    /\ savers = {}
    /\ last = NoResponse

(* ----------------------- the session layer alone ----------------------- *)

LoginNames == {"veera", "veerababu", "babu", "nobody"}
Passwords == {"veera7474", "babu7474"}

NextAuth ==
    \/ \E u \in LoginNames, p \in Passwords : Login(u, p)
    \/ \E c \in RequestCookies : Logout(c)
    \/ \E c \in RequestCookies : budget_page(c)
    \/ Tick(TimeGrid)

SpecAuth == Init /\ [][NextAuth]_vars


(* ------------------------------ calendar ------------------------------ *)

MonthNames ==
    <<"January", "February", "March", "April", "May", "June", "July",
      "August", "September", "October", "November", "December">>

\* the day of the year (from 0) each month of 2025 and 2026 starts on
MonthStart == <<0, 31, 59, 90, 120, 151, 181, 212, 243, 273, 304, 334>>

DayOfYear(t) == (t \div MinutesPerDay) % 365

\* datetime.now().strftime("%B")
current_month(t) ==
    MonthNames[CHOOSE m \in 1..12 :
                  /\ MonthStart[m] <= DayOfYear(t)
                  /\ (m = 12 \/ DayOfYear(t) < MonthStart[m + 1])]

\* datetime.now().year
current_year(t) == 2025 + (t \div MinutesPerDay) \div 365

(* ---------------------------- budget ledger ---------------------------- *)

\* the form of POST /budget and POST /budget/update with every field left at
\* its default
ZeroForm ==
    [salary |-> 0, freelancing_one |-> 0, freelancing_two |-> 0,
     mobile_recharge |-> 0, wifi |-> 0, emi_one |-> 0, emi_two |-> 0,
     emi_three |-> 0, emi_four |-> 0, food |-> 0, rent |-> 0,
     creditcard_one |-> 0, creditcard_two |-> 0, shopping |-> 0, travel |-> 0,
     other_expenses |-> 0, sip |-> 0, fixed_deposit_one |-> 0,
     fixed_deposit_two |-> 0, etf |-> 0]

\* a filled-in form
SalaryForm ==
    [ZeroForm EXCEPT !.salary = 50000, !.rent = 10000, !.food = 5000,
                     !.sip = 2000]

Forms == {ZeroForm, SalaryForm}

\* values of the form field confirm_overwrite: its default and the confirmation
Confirmations == {"", "yes"}

\* the id the table gives an inserted row
NextId(table) ==
    IF table = {} THEN 1
    ELSE 1 + CHOOSE i \in {r.id : r \in table} : \A r \in table : r.id <= i

\* ids a request can name: every row's and one no row has
RequestIds(table) == {r.id : r \in table} \cup {NextId(table)}

\* BudgetEntry(user_id, month, year, **form) once inserted
new_budget_entry(id, user_id, month, year, form) ==
    [id |-> id, user_id |-> user_id, month |-> month, year |-> year] @@ form

\* an assignment that leaves the four fields finalize adds to as stored
assign_form_keeping_added(entry, form) ==
    [f \in DOMAIN entry |->
        IF f \in DOMAIN form
           /\ f \notin {"food", "travel", "shopping", "other_expenses"}
        THEN form[f] ELSE entry[f]]

\* entry with the twenty amount fields assigned from the form
assign_form(entry, form) ==
    [id |-> entry.id, user_id |-> entry.user_id, month |-> entry.month,
     year |-> entry.year] @@ form

\* the rows of query(BudgetEntry).filter(user_id, month, year)
entries_of(entries, user_id, month, year) ==
    { e \in entries : e.user_id = user_id /\ e.month = month /\ e.year = year }

\* a by-id query that leaves out the user_id filter
owned_by_id(table, id, user_id) == { r \in table : r.id = id }

\* the rows of query(Model).filter(id, user_id)
owned(table, id, user_id) ==
    { r \in table : r.id = id /\ r.user_id = user_id }

\* a save_budget that overwrites the period's entry without asking
save_overwrites_unconfirmed(existing, confirm_overwrite) == FALSE

\* save_budget's early return: the period has an entry and the form does not
\* confirm the overwrite
save_needs_confirmation(existing, confirm_overwrite) ==
    existing # {} /\ confirm_overwrite # "yes"

\* a save_budget that inserts without looking for the period's entry
save_always_inserts(existing) == TRUE

\* save_budget's branch: insert when the period has no entry
save_inserts(existing) == existing = {}

\* POST /budget
save_budget(cookies, form, confirm_overwrite) ==
    LET auth == get_current_user(cookies, refresh_tokens, now)
        existing == entries_of(budget_entries, auth.user.id,
                               current_month(now), current_year(now))
        answer(status, id) == Respond("save_budget", status, auth)
    IN
    /\ IF auth.user = NoUser
       THEN /\ last' = answer(302, 0)
            /\ UNCHANGED budget_entries
       ELSE IF save_needs_confirmation(existing, confirm_overwrite)
       THEN /\ \E e \in existing : last' = answer(200, e.id)
            /\ UNCHANGED budget_entries
       ELSE IF ~ save_inserts(existing)
       THEN \E e \in existing :
               /\ budget_entries' =
                      (budget_entries \ {e}) \cup {assign_form(e, form)}
               /\ last' = answer(302, e.id)
       ELSE /\ NextId(budget_entries) <= MaxEntries
            /\ budget_entries' = budget_entries \cup
                   { new_budget_entry(NextId(budget_entries), auth.user.id,
                         current_month(now), current_year(now), form) }
            /\ last' = answer(302, NextId(budget_entries))
    /\ UNCHANGED <<now, refresh_tokens, variable_budget_entries, finalizers, savers>>

\* A save in flight is a record of `savers`: the identity it resolved, the
\* period it read from the clock, its form and what its existence query
\* returned.

\* save_budget up to the existence query and the warning's early return
save_check(cookies, form, confirm_overwrite) ==
    LET auth == get_current_user(cookies, refresh_tokens, now)
        existing == entries_of(budget_entries, auth.user.id,
                               current_month(now), current_year(now))
        free == {i \in 1..MaxSavers : \A q \in savers : q.req # i}
    IN
    /\ IF auth.user = NoUser
       THEN /\ last' = Respond("save_budget", 302, auth)
            /\ UNCHANGED savers
       ELSE IF save_needs_confirmation(existing, confirm_overwrite)
       THEN /\ last' = Respond("save_budget", 200, auth)
            /\ UNCHANGED savers
       ELSE /\ free # {}
            /\ \E found \in (IF existing = {} THEN {{}}
                              ELSE {{e} : e \in existing}) :
                  savers' = savers \cup
                      { [req |-> CHOOSE i \in free : \A j \in free : i <= j,
                         auth |-> auth,
                         month |-> current_month(now),
                         year |-> current_year(now),
                         form |-> form, existing |-> found] }
            /\ UNCHANGED last
    /\ UNCHANGED <<now, store, finalizers>>

\* a commit that inserts only if the period still has no entry
commit_inserts_rechecking(q, entries) ==
    /\ q.existing = {}
    /\ entries_of(entries, q.auth.user.id, q.month, q.year) = {}

\* the branch taken on existing_entry, the result of the earlier query
commit_inserts(q, entries) == q.existing = {}

\* the assignments or the construction of the entry, and db.commit().  The
\* UPDATE of an entry deleted since the query finds no row and raises.
save_commit(q) ==
    LET stored == { e \in budget_entries : \E x \in q.existing : e.id = x.id }
    IN
    /\ q \in savers
    /\ IF commit_inserts(q, budget_entries)
       THEN /\ NextId(budget_entries) <= MaxEntries
            /\ budget_entries' = budget_entries \cup
                   { new_budget_entry(NextId(budget_entries), q.auth.user.id,
                                      q.month, q.year, q.form) }
            /\ last' = Respond("save_budget", 302, q.auth)
       ELSE IF q.existing # {} /\ stored # {}
       THEN /\ budget_entries' = (budget_entries \ stored)
                   \cup { assign_form(e, q.form) : e \in stored }
            /\ last' = Respond("save_budget", 302, q.auth)
       ELSE /\ last' = Respond("save_budget", 500, q.auth)
            /\ UNCHANGED budget_entries
    /\ savers' = savers \ {q}
    /\ UNCHANGED <<now, refresh_tokens, variable_budget_entries, finalizers>>

\* GET /budget/edit/{entry_id}: the form with the entry, beside the list of
\* the user's entries
edit_budget_page(cookies, entry_id) ==
    LET auth == get_current_user(cookies, refresh_tokens, now)
        found == owned(budget_entries, entry_id, auth.user.id)
        answer(status) == Respond("edit_budget_page", status, auth)
    IN
    /\ last' = IF auth.user = NoUser THEN answer(302)
               ELSE IF found = {} THEN answer(404)
               ELSE [answer(200) EXCEPT
                        !.shown = found \cup listed(budget_entries, auth.user.id)]
    /\ UNCHANGED <<now, store, finalizers, savers>>

\* POST /budget/update/{entry_id}
update_budget(cookies, entry_id, form) ==
    LET auth == get_current_user(cookies, refresh_tokens, now)
        found == owned(budget_entries, entry_id, auth.user.id)
        answer(status) == Respond("update_budget", status, auth)
    IN
    /\ IF auth.user = NoUser
       THEN /\ last' = answer(302)
            /\ UNCHANGED budget_entries
       ELSE IF found = {}
       THEN /\ last' = answer(404)
            /\ UNCHANGED budget_entries
       ELSE \E e \in found :
               /\ budget_entries' =
                      (budget_entries \ {e}) \cup {assign_form(e, form)}
               /\ last' = answer(302)
    /\ UNCHANGED <<now, refresh_tokens, variable_budget_entries, finalizers, savers>>

\* POST /budget/delete/{entry_id}
delete_budget(cookies, entry_id) ==
    LET auth == get_current_user(cookies, refresh_tokens, now)
        found == owned(budget_entries, entry_id, auth.user.id)
        answer(status) == Respond("delete_budget", status, auth)
    IN
    /\ IF auth.user = NoUser
       THEN /\ last' = answer(302)
            /\ UNCHANGED budget_entries
       ELSE IF found = {}
       THEN /\ last' = answer(404)
            /\ UNCHANGED budget_entries
       ELSE /\ budget_entries' = budget_entries \ found
            /\ last' = answer(302)
    /\ UNCHANGED <<now, refresh_tokens, variable_budget_entries, finalizers, savers>>

(* ----------------------------- data endpoints -------------------------- *)

\* GET /api/chart-data (timespan "all"): the JSON series of the user's
\* entries; without a user it raises HTTPException(401)
get_chart_data(cookies) ==
    LET auth == get_current_user(cookies, refresh_tokens, now) IN
    /\ last' = IF auth.user = NoUser
               THEN Respond("get_chart_data", 401, auth)
               ELSE [Respond("get_chart_data", 200, auth)
                        EXCEPT !.shown = listed(budget_entries, auth.user.id)]
    /\ UNCHANGED <<now, store, finalizers, savers>>

\* GET /export/budget: the export page, rendered whoever asks
export_page(cookies) ==
    LET auth == get_current_user(cookies, refresh_tokens, now) IN
    /\ last' = Respond("export_page", 200, auth)
    /\ UNCHANGED <<now, store, finalizers, savers>>

\* GET /download/budget (no month, no year).  The body runs in a try whose
\* `except Exception` turns every exception into HTTPException(500): the
\* AttributeError of current_user.id when there is no user, and the
\* HTTPException(404) the body raises when the user has no entry.
download_budget_data(cookies) ==
    LET auth == get_current_user(cookies, refresh_tokens, now)
        entries == listed(budget_entries, auth.user.id)
    IN
    /\ last' = IF auth.user = NoUser \/ entries = {}
               THEN Respond("download_budget_data", 500, auth)
               ELSE [Respond("download_budget_data", 200, auth)
                        EXCEPT !.shown = entries]
    /\ UNCHANGED <<now, store, finalizers, savers>>

(* ------------------------------ analytics ------------------------------ *)

\* Float division and percentages are kept exact: x / y is the fraction
\* [num |-> x, den |-> y], and x / y * 100 is [num |-> x * 100, den |-> y]
Fraction(x, y) == [num |-> x, den |-> y]

\* the literal 0 of the `else 0` branches
Zero == Fraction(0, 1)

total_income(entry) ==
    entry.salary + entry.freelancing_one + entry.freelancing_two

\* an expense total that leaves out the rent
total_expenses_without_rent(entry) ==
    entry.mobile_recharge + entry.wifi + entry.emi_one + entry.emi_two
    + entry.emi_three + entry.emi_four + entry.food
    + entry.creditcard_one + entry.creditcard_two + entry.shopping
    + entry.travel + entry.other_expenses

total_expenses(entry) ==
    entry.mobile_recharge + entry.wifi + entry.emi_one + entry.emi_two
    + entry.emi_three + entry.emi_four + entry.food + entry.rent
    + entry.creditcard_one + entry.creditcard_two + entry.shopping
    + entry.travel + entry.other_expenses

total_investments(entry) ==
    entry.sip + entry.fixed_deposit_one + entry.fixed_deposit_two + entry.etf

budget_balance(entry) ==
    total_income(entry) - total_expenses(entry) - total_investments(entry)

RECURSIVE sum(_)
sum(values) ==
    IF values = <<>> THEN 0 ELSE Head(values) + sum(Tail(values))

\* a divisor that is always the twelve months of the year
divisor_twelve(count) == 12

\* max(len(...), 1)
divisor(count) == IF count > 1 THEN count ELSE 1

\* the document of GET /api/yearly-chart-data/{year} (the months, the
\* monthly totals and the summary; the per-field breakdowns repeat the
\* entries' fields).  `entries` are the rows of the handler's query.
yearly_chart_data(entries, year) ==
    LET entries_by_month(month) == CHOOSE e \in entries : e.month = month
        months == SelectSeq(MonthNames,
                            LAMBDA m : \E e \in entries : e.month = m)
        series(total(_)) ==
            [i \in 1..Len(months) |-> total(entries_by_month(months[i]))]
        income == series(total_income)
        expenses == series(total_expenses)
        investments == series(total_investments)
        balance == series(budget_balance)
        average(values) == Fraction(sum(values), divisor(Len(values)))
    IN  [year |-> year,
         months |-> months,
         monthly_totals |->
             [income |-> income, expenses |-> expenses,
              investments |-> investments, budget_balance |-> balance],
         summary |->
             [total_income |-> sum(income),
              total_expenses |-> sum(expenses),
              total_investments |-> sum(investments),
              total_budget_balance |-> sum(balance),
              average_monthly_income |-> average(income),
              average_monthly_expenses |-> average(expenses),
              average_monthly_investments |-> average(investments),
              average_monthly_budget_balance |-> average(balance),
              months_with_data |-> Len(months)]]

\* GET /api/yearly-chart-data/{year}
get_yearly_chart_data(cookies, year) ==
    LET auth == get_current_user(cookies, refresh_tokens, now)
        entries == { e \in listed(budget_entries, auth.user.id) :
                       e.year = year }
    IN
    /\ last' = IF auth.user = NoUser
               THEN Respond("get_yearly_chart_data", 401, auth)
               ELSE [Respond("get_yearly_chart_data", 200, auth) EXCEPT
                        !.shown = entries,
                        !.data = yearly_chart_data(entries, year)]
    /\ UNCHANGED <<now, store, finalizers, savers>>

\* the position of a month in month_order, from 1
month_index(month) ==
    CHOOSE i \in 1..Len(MonthNames) : MonthNames[i] = month

\* a month before that never leaves the year
previous_period_same_year(month, year) ==
    IF month_index(month) = 1
    THEN [month |-> "December", year |-> year]
    ELSE [month |-> MonthNames[month_index(month) - 1], year |-> year]

\* the month before (month, year)
previous_period(month, year) ==
    IF month_index(month) = 1
    THEN [month |-> "December", year |-> year - 1]
    ELSE [month |-> MonthNames[month_index(month) - 1], year |-> year]

\* a percentage computed whenever the previous total is not zero
change_percent_nonzero(current, previous, has_previous, is_base) ==
    IF has_previous /\ previous # 0
    THEN Fraction((current - previous) * 100, previous)
    ELSE Zero

\* (current - previous) / previous * 100 if prev_entry and <test on the
\* previous total> else 0
change_percent(current, previous, has_previous, is_base) ==
    IF has_previous /\ is_base
    THEN Fraction((current - previous) * 100, previous)
    ELSE Zero

\* the expense categories of the analysis, in the order of the list
expense_categories(entry) ==
    << <<"Rent", entry.rent>>,
       <<"Food", entry.food>>,
       <<"EMIs", entry.emi_one + entry.emi_two + entry.emi_three
                 + entry.emi_four>>,
       <<"Credit Cards", entry.creditcard_one + entry.creditcard_two>>,
       <<"Shopping", entry.shopping>>,
       <<"Travel", entry.travel>>,
       <<"Other", entry.other_expenses>> >>

\* a max that keeps the last of the greatest pairs
RECURSIVE max_by_value_last(_)
max_by_value_last(pairs) ==
    IF Len(pairs) = 1 THEN pairs[1]
    ELSE LET best == max_by_value_last(Tail(pairs))
         IN  IF pairs[1][2] > best[2] THEN pairs[1] ELSE best

\* max(pairs, key=lambda x: x[1]): of the pairs with the greatest value, the
\* first in the list
RECURSIVE max_by_value(_)
max_by_value(pairs) ==
    IF Len(pairs) = 1 THEN pairs[1]
    ELSE LET best == max_by_value(Tail(pairs))
         IN  IF pairs[1][2] >= best[2] THEN pairs[1] ELSE best

\* the document of GET /api/monthly-analysis-data/{year}/{month} for the entry
\* of the month and the entry of the month before, if any (`entries` are
\* the user's rows): the totals of both months, their comparisons and the
\* largest expense category
monthly_data(entries, year, month) ==
    LET entry == CHOOSE e \in entries : e.year = year /\ e.month = month
        prev == previous_period(month, year)
        prev_entries ==
            { e \in entries : e.year = prev.year /\ e.month = prev.month }
        has_previous == prev_entries # {}
        prev_entry == CHOOSE e \in prev_entries : TRUE
        current_income == total_income(entry)
        current_expenses == total_expenses(entry)
        current_investments == total_investments(entry)
        current_budget_balance ==
            current_income - current_expenses - current_investments
        prev_income == IF has_previous THEN total_income(prev_entry) ELSE 0
        prev_expenses == IF has_previous THEN total_expenses(prev_entry) ELSE 0
        prev_investments ==
            IF has_previous THEN total_investments(prev_entry) ELSE 0
        prev_budget_balance == prev_income - prev_expenses - prev_investments
    IN  [month |-> month,
         year |-> year,
         current |->
             [income |-> current_income,
              expenses |-> current_expenses,
              investments |-> current_investments,
              budget_balance |-> current_budget_balance],
         previous |->
             [month |-> prev.month,
              year |-> prev.year,
              income |-> prev_income,
              expenses |-> prev_expenses,
              investments |-> prev_investments,
              budget_balance |-> prev_budget_balance,
              has_data |-> has_previous],
         comparisons |->
             [income_change |->
                  IF has_previous THEN current_income - prev_income ELSE 0,
              income_change_percent |->
                  change_percent(current_income, prev_income,
                                 has_previous, prev_income > 0),
              expenses_change |->
                  IF has_previous THEN current_expenses - prev_expenses ELSE 0,
              expenses_change_percent |->
                  change_percent(current_expenses, prev_expenses,
                                 has_previous, prev_expenses > 0),
              investments_change |->
                  IF has_previous
                  THEN current_investments - prev_investments ELSE 0,
              investments_change_percent |->
                  change_percent(current_investments, prev_investments,
                                 has_previous, prev_investments # 0),
              budget_balance_change |->
                  IF has_previous
                  THEN current_budget_balance - prev_budget_balance ELSE 0],
         analytics |->
             [largest_expense_category |->
                  max_by_value(expense_categories(entry))]]

\* GET /api/monthly-analysis-data/{year}/{month}
get_monthly_analysis_data(cookies, year, month) ==
    LET auth == get_current_user(cookies, refresh_tokens, now)
        entries == listed(budget_entries, auth.user.id)
        found == \E e \in entries : e.year = year /\ e.month = month
        prev == previous_period(month, year)
    IN
    /\ last' =
          IF auth.user = NoUser
          THEN Respond("get_monthly_analysis_data", 401, auth)
          ELSE IF ~found
          THEN [Respond("get_monthly_analysis_data", 200, auth) EXCEPT
                   !.data = [error |-> "No data found for the specified month"]]
          ELSE [Respond("get_monthly_analysis_data", 200, auth) EXCEPT
                   !.shown = { e \in entries :
                                 \/ e.year = year /\ e.month = month
                                 \/ e.year = prev.year /\ e.month = prev.month },
                   !.data = monthly_data(entries, year, month)]
    /\ UNCHANGED <<now, store, finalizers, savers>>

(* --------------------------- analytics inputs -------------------------- *)

\* the months the reports are asked for: three in a row, the end of the
\* year and the start of the next
ReportPeriods ==
    << [month |-> "January", year |-> 2025],
       [month |-> "February", year |-> 2025],
       [month |-> "March", year |-> 2025],
       [month |-> "December", year |-> 2025],
       [month |-> "January", year |-> 2026] >>

\* a month of freelance work, and a month of refunds and withdrawals (the
\* form's amounts are floats of either sign)
FreelanceForm ==
    [ZeroForm EXCEPT !.freelancing_one = 20000, !.freelancing_two = 5000,
                     !.rent = 12000, !.emi_one = 3000,
                     !.creditcard_two = 1500, !.etf = 4000,
                     !.fixed_deposit_one = 1000]

RefundForm ==
    [ZeroForm EXCEPT !.salary = -1000, !.rent = -500, !.sip = -2000]

\* a month of instalments: the EMIs, the cards and the shopping cost the same
LoanForm ==
    [ZeroForm EXCEPT !.salary = 30000, !.rent = 6000, !.emi_one = 5000,
                     !.emi_two = 3000, !.creditcard_one = 8000,
                     !.shopping = 8000, !.travel = 200]

ReportForms == {ZeroForm, SalaryForm, FreelanceForm, RefundForm, LoanForm}

\* the ledgers a user can have built with save_budget: at most one entry
\* per month, ids in the order of the months
RECURSIVE ReportTables(_, _)
ReportTables(i, next_id) ==
    IF i > Len(ReportPeriods) THEN {{}}
    ELSE ReportTables(i + 1, next_id)
         \cup (IF next_id > MaxReportEntries THEN {}
               ELSE { {new_budget_entry(next_id, UserByName("veera").id,
                                        ReportPeriods[i].month,
                                        ReportPeriods[i].year, f)} \cup t :
                        f \in ReportForms,
                        t \in ReportTables(i + 1, next_id + 1) })

\* veera has logged in at minute 0 and has some ledger
InitReport ==
    /\ now = 0
    /\ refresh_tokens =
          {[user_id |-> UserByName("veera").id,
            token |-> encode_refresh_token("veera", UserByName("veera").id, 0),
            is_revoked |-> 0]}
    /\ budget_entries \in ReportTables(1, 1)
    /\ variable_budget_entries = {}
    /\ finalizers = {}
    /\ savers = {}
    /\ last = NoResponse

NextReport ==
    \E cookies \in Sessions({"veera"}) \cup {NoCookies} :
        \/ \E year \in {2024, 2025, 2026} :
              get_yearly_chart_data(cookies, year)
        \/ \E i \in 1..Len(ReportPeriods) :
              get_monthly_analysis_data(cookies, ReportPeriods[i].year,
                                        ReportPeriods[i].month)

SpecReport == InitReport /\ [][NextReport]_vars

(* ----------------------- variable expense buffer ---------------------- *)

\* POST /variable-budget: the row is created a draft of the current period
add_variable_budget(cookies, category, description, amount) ==
    LET auth == get_current_user(cookies, refresh_tokens, now)
        id == NextId(variable_budget_entries)
    IN
    /\ IF auth.user = NoUser
       THEN /\ last' = Respond("add_variable_budget", 302, auth)
            /\ UNCHANGED variable_budget_entries
       ELSE /\ id <= MaxRows
            /\ variable_budget_entries' = variable_budget_entries \cup
                   { [id |-> id, user_id |-> auth.user.id,
                      month |-> current_month(now), year |-> current_year(now),
                      category |-> category, description |-> description,
                      amount |-> amount, is_finalized |-> 0] }
            /\ last' = Respond("add_variable_budget", 302, auth)
    /\ UNCHANGED <<now, refresh_tokens, budget_entries, finalizers, savers>>

\* GET /variable-budget: the page lists the user's rows of the current period
variable_budget_page(cookies) ==
    LET auth == get_current_user(cookies, refresh_tokens, now) IN
    /\ last' = IF auth.user = NoUser
               THEN Respond("variable_budget_page", 302, auth)
               ELSE [Respond("variable_budget_page", 200, auth) EXCEPT
                        !.shown = { r \in listed(variable_budget_entries,
                                                 auth.user.id) :
                                      /\ r.month = current_month(now)
                                      /\ r.year = current_year(now) }]
    /\ UNCHANGED <<now, store, finalizers, savers>>

\* an update/delete query that leaves out the is_finalized == 0 filter
owned_any_state(rows, id, user_id) ==
    { r \in rows : r.id = id /\ r.user_id = user_id }

\* the rows of query(VariableBudgetEntry).filter(id, user_id, is_finalized == 0)
owned_draft(rows, id, user_id) ==
    { r \in owned(rows, id, user_id) : r.is_finalized = 0 }

\* POST /variable-budget/update/{entry_id}
update_variable_budget(cookies, entry_id, description, amount) ==
    LET auth == get_current_user(cookies, refresh_tokens, now)
        found == owned_draft(variable_budget_entries, entry_id, auth.user.id)
        answer(status) == Respond("update_variable_budget", status, auth)
    IN
    /\ IF auth.user = NoUser
       THEN /\ last' = answer(302)
            /\ UNCHANGED variable_budget_entries
       ELSE IF found = {}
       THEN /\ last' = answer(404)
            /\ UNCHANGED variable_budget_entries
       ELSE \E r \in found :
               /\ variable_budget_entries' =
                      (variable_budget_entries \ {r}) \cup
                      { [r EXCEPT !.description = description,
                                  !.amount = amount] }
               /\ last' = answer(302)
    /\ UNCHANGED <<now, refresh_tokens, budget_entries, finalizers, savers>>

\* POST /variable-budget/delete/{entry_id}
delete_variable_budget(cookies, entry_id) ==
    LET auth == get_current_user(cookies, refresh_tokens, now)
        found == owned_draft(variable_budget_entries, entry_id, auth.user.id)
        answer(status) == Respond("delete_variable_budget", status, auth)
    IN
    /\ IF auth.user = NoUser
       THEN /\ last' = answer(302)
            /\ UNCHANGED variable_budget_entries
       ELSE IF found = {}
       THEN /\ last' = answer(404)
            /\ UNCHANGED variable_budget_entries
       ELSE /\ variable_budget_entries' = variable_budget_entries \ found
            /\ last' = answer(302)
    /\ UNCHANGED <<now, refresh_tokens, budget_entries, finalizers, savers>>

(* ------------------------------- finalize ------------------------------ *)

\* a drafts query that leaves out the year
drafts_any_year(rows, user_id, month, year) ==
    { r \in rows : /\ r.user_id = user_id
                   /\ r.month = month
                   /\ r.is_finalized = 0 }

\* a drafts query that leaves out the month and the year
drafts_any_period(rows, user_id, month, year) ==
    { r \in rows : r.user_id = user_id /\ r.is_finalized = 0 }

\* the draft rows finalize collects
drafts(rows, user_id, month, year) ==
    { r \in rows : /\ r.user_id = user_id
                   /\ r.month = month
                   /\ r.year = year
                   /\ r.is_finalized = 0 }

RECURSIVE sum_amounts(_)
sum_amounts(rows) ==
    IF rows = {} THEN 0
    ELSE LET r == CHOOSE x \in rows : TRUE
         IN  r.amount + sum_amounts(rows \ {r})

\* category_totals: one key per category among the collected rows
category_totals(collected) ==
    [c \in {r.category : r \in collected} |->
        sum_amounts({r \in collected : r.category = c})]

\* what the if/elif chain adds to the entry's field `field`
added_to(totals, field) ==
    LET category == IF field = "other_expenses" THEN "other" ELSE field
    IN  IF field \in {"food", "travel", "shopping", "other_expenses"}
           /\ category \in DOMAIN totals
        THEN totals[category]
        ELSE 0

\* the fields the chain assigns (budget_entry.<field> += total)
touched_fields(totals) ==
    { f \in {"food", "travel", "shopping", "other_expenses"} :
        (IF f = "other_expenses" THEN "other" ELSE f) \in DOMAIN totals }

\* BudgetEntry(user_id, month, year) as constructed: the column defaults are
\* applied by the INSERT, so until then every amount attribute reads None and
\* `None += total` raises TypeError
raises_type_error(is_new, totals) ==
    is_new /\ touched_fields(totals) # {}

\* the entry after the += chain
add_totals(entry, totals) ==
    [entry EXCEPT !.food = @ + added_to(totals, "food"),
                  !.travel = @ + added_to(totals, "travel"),
                  !.shopping = @ + added_to(totals, "shopping"),
                  !.other_expenses = @ + added_to(totals, "other_expenses")]

\* a finalize that forgets the flag
mark_finalized_never(rows, collected) == rows

\* entry.is_finalized = 1 for every collected row
mark_finalized(rows, collected) ==
    { IF r \in collected THEN [r EXCEPT !.is_finalized = 1] ELSE r : r \in rows }

\* a finalize that loads or creates the BudgetEntry, and commits it, before
\* it looks for draft rows
finalize_result_entry_first(entries, rows, user_id, month, year, commit_fails) ==
    LET collected == drafts(rows, user_id, month, year)
        existing == entries_of(entries, user_id, month, year)
    IN  IF existing = {}
        THEN { [status |-> 302, collected |-> collected,
                entries |-> entries \cup
                    {new_budget_entry(NextId(entries), user_id, month, year,
                                      ZeroForm)},
                rows |-> mark_finalized(rows, collected)] }
        ELSE { [status |-> 302, collected |-> collected,
                entries |-> (entries \ {e}) \cup
                            {add_totals(e, category_totals(collected))},
                rows |-> mark_finalized(rows, collected)] : e \in existing }

\* a finalize that commits the BudgetEntry and then, in a second commit, the
\* rows' flags
finalize_result_two_commits(entries, rows, user_id, month, year, commit_fails) ==
    LET collected == drafts(rows, user_id, month, year)
        existing == entries_of(entries, user_id, month, year)
    IN  IF collected = {} \/ existing = {}
        THEN { [status |-> 302, collected |-> collected,
                entries |-> entries, rows |-> rows] }
        ELSE { [status |-> IF commit_fails THEN 500 ELSE 302,
                collected |-> collected,
                entries |-> (entries \ {e}) \cup
                            {add_totals(e, category_totals(collected))},
                rows |-> IF commit_fails THEN rows
                         ELSE mark_finalized(rows, collected)] : e \in existing }

\* finalize_variable_budget for an authenticated user, run alone: the
\* outcomes (status, rows collected, tables after the request).  An exception
\* leaves the session uncommitted, and get_db closes it: nothing is stored.
finalize_result(entries, rows, user_id, month, year, commit_fails) ==
    LET collected == drafts(rows, user_id, month, year)
        totals == category_totals(collected)
        existing == entries_of(entries, user_id, month, year)
        unchanged(status) ==
            [status |-> status, collected |-> collected,
             entries |-> entries, rows |-> rows]
    IN  IF collected = {} THEN { unchanged(302) }
        ELSE IF raises_type_error(existing = {}, totals) THEN { unchanged(500) }
        ELSE IF commit_fails THEN { unchanged(500) }
        ELSE IF existing = {}
        THEN { [status |-> 302, collected |-> collected,
                entries |-> entries \cup
                    {new_budget_entry(NextId(entries), user_id, month, year,
                                      ZeroForm)},
                rows |-> mark_finalized(rows, collected)] }
        ELSE { [status |-> 302, collected |-> collected,
                entries |-> (entries \ {e}) \cup {add_totals(e, totals)},
                rows |-> mark_finalized(rows, collected)] : e \in existing }

\* POST /variable-budget/finalize, run alone.  commit_fails: db.commit() raises.
finalize_variable_budget(cookies, commit_fails) ==
    LET auth == get_current_user(cookies, refresh_tokens, now) IN
    /\ IF auth.user = NoUser
       THEN /\ last' = Respond("finalize_variable_budget", 302, auth)
            /\ UNCHANGED <<budget_entries, variable_budget_entries>>
       ELSE \E out \in finalize_result(budget_entries, variable_budget_entries,
                           auth.user.id, current_month(now), current_year(now),
                           commit_fails) :
               /\ \A e \in out.entries : e.id <= MaxEntries
               /\ budget_entries' = out.entries
               /\ variable_budget_entries' = out.rows
               /\ last' = Respond("finalize_variable_budget", out.status, auth)
    /\ UNCHANGED <<now, refresh_tokens, finalizers, savers>>

(* ------------------- finalize, requests overlapping ------------------- *)

\* A finalize in flight is a record of `finalizers`: what its session has read
\* so far.  Each query reads the rows committed when it runs; nothing the
\* request assigns reaches the store before its commit.

\* the BudgetEntry object before its INSERT gives it an id
Pending == 0

\* finalize up to the drafts query and the early return
finalize_read(cookies) ==
    LET auth == get_current_user(cookies, refresh_tokens, now)
        collected == drafts(variable_budget_entries, auth.user.id,
                            current_month(now), current_year(now))
        free == {i \in 1..MaxFinalizers : \A q \in finalizers : q.req # i}
    IN
    /\ IF auth.user = NoUser \/ collected = {}
       THEN /\ last' = Respond("finalize_variable_budget", 302, auth)
            /\ UNCHANGED finalizers
       ELSE /\ free # {}
            /\ finalizers' = finalizers \cup
                   { [req |-> CHOOSE i \in free : \A j \in free : i <= j,
                      auth |-> auth,
                      month |-> current_month(now), year |-> current_year(now),
                      collected |-> collected, pc |-> "read",
                      entry |-> new_budget_entry(Pending, auth.user.id,
                                    current_month(now), current_year(now),
                                    ZeroForm)] }
            /\ UNCHANGED last
    /\ UNCHANGED <<now, store, savers>>

\* the BudgetEntry query, the construction of a missing entry and the +=
\* chain: q.entry becomes the object the session will flush
finalize_load(q) ==
    LET existing == entries_of(budget_entries, q.auth.user.id, q.month, q.year)
        totals == category_totals(q.collected)
    IN
    /\ q.pc = "read"
    /\ IF raises_type_error(existing = {}, totals)
       THEN /\ finalizers' = finalizers \ {q}
            /\ last' = Respond("finalize_variable_budget", 500, q.auth)
       ELSE /\ \E e \in (IF existing = {} THEN {q.entry} ELSE existing) :
                  finalizers' = (finalizers \ {q}) \cup
                      { [q EXCEPT !.pc = "loaded",
                                  !.entry = add_totals(e, totals)] }
            /\ UNCHANGED last
    /\ UNCHANGED <<now, store, savers>>

\* the stored entry after the flush's UPDATE, which sets the columns the +=
\* chain assigned to the values the session computed
flushed(stored, entry, totals) ==
    [f \in DOMAIN stored |->
        IF f \in touched_fields(totals) THEN entry[f] ELSE stored[f]]

\* db.commit(): the entry's INSERT or UPDATE and the UPDATE of each collected
\* row's flag, in one transaction.  An UPDATE that finds its row gone raises
\* and nothing is stored.  commit_fails: db.commit() raises.
finalize_commit(q, commit_fails) ==
    LET totals == category_totals(q.collected)
        stored == { e \in budget_entries : e.id = q.entry.id }
        ids == { r.id : r \in q.collected }
        stale == \/ q.entry.id # Pending /\ stored = {}
                 \/ \E i \in ids : \A r \in variable_budget_entries : r.id # i
    IN
    /\ q.pc = "loaded"
    /\ IF commit_fails \/ stale
       THEN /\ last' = Respond("finalize_variable_budget", 500, q.auth)
            /\ UNCHANGED <<budget_entries, variable_budget_entries>>
       ELSE /\ q.entry.id = Pending => NextId(budget_entries) <= MaxEntries
            /\ budget_entries' =
                   IF q.entry.id = Pending
                   THEN budget_entries \cup
                            { [q.entry EXCEPT !.id = NextId(budget_entries)] }
                   ELSE (budget_entries \ stored) \cup
                            { flushed(e, q.entry, totals) : e \in stored }
            /\ variable_budget_entries' =
                   { IF r.id \in ids THEN [r EXCEPT !.is_finalized = 1] ELSE r :
                       r \in variable_budget_entries }
            /\ last' = Respond("finalize_variable_budget", 302, q.auth)
    /\ finalizers' = finalizers \ {q}
    /\ UNCHANGED <<now, refresh_tokens, savers>>

(* --------------- the expense buffer, one request at a time ------------- *)

\* the users of the checked runs: veera keeps a budget and a buffer, babu
\* only adds one expense to the buffer
BudgetUsers == {"veera", "babu"}

\* the expenses veera enters: category and amount
Expenses ==
    { [category |-> "food", amount |-> 300],
      [category |-> "food", amount |-> 150],
      [category |-> "travel", amount |-> 1000],
      [category |-> "misc", amount |-> 70] }

Next ==
    \/ \E u \in BudgetUsers : Login(u, UserByName(u).password)
    \/ \E c \in Sessions({"veera"}), y \in Confirmations :
          save_budget(c, SalaryForm, y)
    \/ \E c \in Sessions({"veera"}), x \in Expenses :
          add_variable_budget(c, x.category, "lunch", x.amount)
    \/ \E c \in Sessions({"babu"}) :
          add_variable_budget(c, "food", "lunch", 150)
    \/ \E c \in Sessions({"veera"}),
          i \in RequestIds(variable_budget_entries) :
          update_variable_budget(c, i, "dinner", 150)
    \/ \E c \in Sessions({"veera"}),
          i \in RequestIds(variable_budget_entries) :
          delete_variable_budget(c, i)
    \/ \E c \in Sessions(BudgetUsers), fails \in BOOLEAN :
          finalize_variable_budget(c, fails)

Spec == Init /\ [][Next]_vars

(* ---------------- the budget ledger, one request at a time ------------- *)

\* the clock at the start and in the first minute of the next month
MonthGrid == {0, 44640}

NextBudget ==
    \/ \E u \in BudgetUsers : Login(u, UserByName(u).password)
    \/ \E c \in Sessions({"veera"}), f \in Forms, y \in Confirmations :
          save_budget(c, f, y)
    \/ \E c \in Sessions({"babu"}) : save_budget(c, SalaryForm, "")
    \/ \E c \in Sessions({"veera"}), i \in RequestIds(budget_entries) :
          update_budget(c, i, ZeroForm)
    \/ \E c \in Sessions({"veera"}), i \in RequestIds(budget_entries) :
          delete_budget(c, i)
    \/ \E c \in Sessions({"veera"}) :
          add_variable_budget(c, "misc", "lunch", 70)
    \/ \E c \in Sessions({"veera"}) : finalize_variable_budget(c, FALSE)
    \/ Tick(MonthGrid)

SpecBudget == Init /\ [][NextBudget]_vars

(* ------------------------ finalize requests overlapping ---------------- *)

\* veera saves the month's budget, enters expenses of categories finalize adds
\* up, and sends finalize requests that run side by side
NextConc ==
    \/ Login("veera", "veera7474")
    \/ \E c \in Sessions({"veera"}) : save_budget(c, SalaryForm, "")
    \/ \E c \in Sessions({"veera"}),
          x \in {e \in Expenses : e.category \in {"food", "travel"}} :
          add_variable_budget(c, x.category, "lunch", x.amount)
    \/ \E c \in Sessions({"veera"}) : finalize_read(c)
    \/ \E q \in finalizers : finalize_load(q)
    \/ \E q \in finalizers, fails \in BOOLEAN : finalize_commit(q, fails)

SpecConc == Init /\ [][NextConc]_vars

(* -------------------------- saves overlapping -------------------------- *)

\* veera sends save requests that run side by side, and deletes entries
NextSave ==
    \/ Login("veera", "veera7474")
    \/ \E c \in Sessions({"veera"}), f \in Forms, y \in Confirmations :
          save_check(c, f, y)
    \/ \E q \in savers : save_commit(q)
    \/ \E c \in Sessions({"veera"}), i \in {e.id : e \in budget_entries} :
          delete_budget(c, i)

SpecSave == Init /\ [][NextSave]_vars

(* -------------------- overwriting a finalized budget ------------------- *)

\* veera saves and edits the month's budget before and after finalizing
\* the expenses entered
NextOverwrite ==
    \/ Login("veera", "veera7474")
    \/ \E c \in Sessions({"veera"}), y \in Confirmations :
          save_budget(c, SalaryForm, y)
    \/ \E c \in Sessions({"veera"}), i \in {e.id : e \in budget_entries},
          f \in Forms :
          update_budget(c, i, f)
    \/ \E c \in Sessions({"veera"}),
          x \in {e \in Expenses : e.category \in {"food", "travel"}} :
          add_variable_budget(c, x.category, "lunch", x.amount)
    \/ \E c \in Sessions({"veera"}) : finalize_variable_budget(c, FALSE)

SpecOverwrite == Init /\ [][NextOverwrite]_vars

(* ------------------- finalize across users and months ------------------ *)

\* veera and babu both keep a budget and a buffer; veera finalizes, in
\* January and in February
NextFrame ==
    \/ \E u \in BudgetUsers : Login(u, UserByName(u).password)
    \/ \E c \in Sessions(BudgetUsers) : save_budget(c, SalaryForm, "")
    \/ \E c \in Sessions({"veera"}), x \in {300, 150} :
          add_variable_budget(c, "food", "lunch", x)
    \/ \E c \in Sessions({"babu"}) :
          add_variable_budget(c, "food", "lunch", 150)
    \/ \E c \in Sessions({"veera"}) : finalize_variable_budget(c, FALSE)
    \/ Tick(MonthGrid)

SpecFrame == Init /\ [][NextFrame]_vars

(* ------------------ the buffer while the months go by ------------------ *)

\* the first minute of January 2025, of February 2025 and of January 2026
YearGrid == {0, 44640, 525600}

\* veera enters, corrects and finalizes expenses over a year
NextStale ==
    \/ Login("veera", "veera7474")
    \/ \E c \in Sessions({"veera"}) : save_budget(c, SalaryForm, "")
    \/ \E c \in Sessions({"veera"}) :
          add_variable_budget(c, "food", "lunch", 300)
    \/ \E c \in Sessions({"veera"}),
          i \in {r.id : r \in variable_budget_entries} :
          update_variable_budget(c, i, "dinner", 150)
    \/ \E c \in Sessions({"veera"}) : finalize_variable_budget(c, FALSE)
    \/ Tick(YearGrid)

SpecStale == Init /\ [][NextStale]_vars

(* --------------------- two tenants, one request at a time -------------- *)

\* veera and babu each keep a budget and a buffer; veera reads the pages and
\* sends edits, updates and deletes naming every stored id of either table
NextTenant ==
    \/ \E u \in BudgetUsers : Login(u, UserByName(u).password)
    \/ \E c \in Sessions(BudgetUsers) : save_budget(c, SalaryForm, "")
    \/ \E c \in Sessions(BudgetUsers) :
          add_variable_budget(c, "misc", "lunch", 70)
    \/ \E c \in Sessions({"veera"}) : budget_page(c)
    \/ \E c \in Sessions({"veera"}) : variable_budget_page(c)
    \/ \E c \in Sessions({"veera"}), i \in {e.id : e \in budget_entries} :
          edit_budget_page(c, i)
    \/ \E c \in Sessions({"veera"}), i \in {e.id : e \in budget_entries} :
          update_budget(c, i, ZeroForm)
    \/ \E c \in Sessions({"veera"}), i \in {e.id : e \in budget_entries} :
          delete_budget(c, i)
    \/ \E c \in Sessions({"veera"}),
          i \in {r.id : r \in variable_budget_entries} :
          update_variable_budget(c, i, "dinner", 150)
    \/ \E c \in Sessions({"veera"}),
          i \in {r.id : r \in variable_budget_entries} :
          delete_variable_budget(c, i)
    \/ \E c \in Sessions({"veera"}) : finalize_variable_budget(c, FALSE)

SpecTenant == Init /\ [][NextTenant]_vars

(* ------------------ every endpoint, with and without a user ------------ *)

\* veera logs in and out; every endpoint is requested with every cookie pair
\* a client can send
NextGuard ==
    \/ Login("veera", "veera7474")
    \/ \E c \in RequestCookies : Logout(c)
    \/ \E c \in RequestCookies : budget_page(c)
    \/ \E c \in RequestCookies, i \in RequestIds(budget_entries) :
          edit_budget_page(c, i)
    \/ \E c \in RequestCookies : save_budget(c, SalaryForm, "")
    \/ \E c \in RequestCookies, i \in RequestIds(budget_entries) :
          update_budget(c, i, ZeroForm)
    \/ \E c \in RequestCookies, i \in RequestIds(budget_entries) :
          delete_budget(c, i)
    \/ \E c \in RequestCookies : variable_budget_page(c)
    \/ \E c \in RequestCookies : add_variable_budget(c, "misc", "lunch", 70)
    \/ \E c \in RequestCookies, i \in RequestIds(variable_budget_entries) :
          update_variable_budget(c, i, "dinner", 150)
    \/ \E c \in RequestCookies, i \in RequestIds(variable_budget_entries) :
          delete_variable_budget(c, i)
    \/ \E c \in RequestCookies : finalize_variable_budget(c, FALSE)
    \/ \E c \in RequestCookies : get_chart_data(c)
    \/ \E c \in RequestCookies : export_page(c)
    \/ \E c \in RequestCookies : download_budget_data(c)

SpecGuard == Init /\ [][NextGuard]_vars

(* ------------------------- session layer claims ------------------------ *)

\* C1: a refresh token whose ledger row logout has revoked is refused by
\* verify_refresh_token, and no later request takes the revocation back: a
\* revoked row stays in the ledger, revoked, whatever the token's expiry.
C1_RevokedStaysInvalid ==
    /\ [](\A r \in refresh_tokens :
             r.is_revoked = 1 =>
                 verify_refresh_token(r.token, refresh_tokens, now) = NoUser)
    /\ [][\A r \in refresh_tokens :
             r.is_revoked = 1 => r \in refresh_tokens']_vars

\* a revoked token that is still correctly signed and unexpired, whose owner
\* has logged in again since
C1_Witness ==
    \E r, q \in refresh_tokens :
        /\ r.is_revoked = 1
        /\ jwt_decode_ok(r.token, REFRESH_SECRET_KEY, now)
        /\ q.user_id = r.user_id
        /\ q.is_revoked = 0
        /\ q.token.exp > r.token.exp

\* C2: the cookies a login with matching credentials sets, presented at once
\* to get_current_user, resolve to the user whose username was submitted.
C2_LoginResolves ==
    [][last'.op = "login" =>
       \A username \in LoginNames, password \in Passwords :
          (Login(username, password) /\ last'.status = 302)
          => LET cookies == [access |-> last'.set_access,
                             refresh |-> last'.set_refresh]
                 user == get_current_user(cookies, refresh_tokens', now').user
             IN  /\ user # NoUser
                 /\ user.username = username
                 /\ verify_password(password, user.password)]_vars

\* veerababu, whose password is also veera's, has just logged in
C2_Witness ==
    /\ last.op = "login"
    /\ last.status = 302
    /\ last.uid = 2
    /\ last.set_access.sub = "veerababu"
    /\ \E r \in refresh_tokens : r.token = last.set_refresh /\ r.token.exp = now
            + REFRESH_TOKEN_EXPIRE_DAYS * MinutesPerDay

\* C3: a request answered with an identity resolved on the refresh path
\* carries a newly minted access_token cookie on its response.
C3_RenewalOnResponse ==
    last.via = "refresh" =>
        /\ last.set_access # NoToken
        /\ last.set_access.type = "access"
        /\ last.set_access.user_id = last.uid


(* ----------------------------- finalize claims ------------------------- *)

\* the four fields finalize adds to, with the category each takes
FinalizeFields == {"food", "travel", "shopping", "other_expenses"}

CategoryOf(field) == IF field = "other_expenses" THEN "other" ELSE field

\* the value of `field` in the period's BudgetEntry, 0 while there is none
field_value(entries, user_id, month, year, field) ==
    IF entries_of(entries, user_id, month, year) = {} THEN 0
    ELSE (CHOOSE e \in entries_of(entries, user_id, month, year) : TRUE)[field]

\* every row of `collected` is in `rows`, finalized and otherwise as it was
all_finalized(rows, collected) ==
    \A r \in collected : [r EXCEPT !.is_finalized = 1] \in rows

\* each of the four fields has grown by the sum of the collected rows of its
\* category
sums_added(entries_before, entries_after, collected, user_id, month, year) ==
    \A field \in FinalizeFields :
        field_value(entries_after, user_id, month, year, field)
          - field_value(entries_before, user_id, month, year, field)
        = sum_amounts({r \in collected : r.category = CategoryOf(field)})

\* C4: after a finalize that found at least one draft row, each of food,
\* travel, shopping and other_expenses has grown by the sum of the collected
\* drafts of its category, every collected row is finalized, and a second
\* finalize right afterwards changes no BudgetEntry and no variable row.
C4_FinalizeAddsDraftSums ==
    [][last'.op = "finalize_variable_budget" =>
       \A c \in Sessions(BudgetUsers) :
          LET user == get_current_user(c, refresh_tokens, now).user
              month == current_month(now)
              year == current_year(now)
              collected == drafts(variable_budget_entries, user.id, month, year)
          IN  (finalize_variable_budget(c, FALSE) /\ collected # {})
              => /\ sums_added(budget_entries, budget_entries', collected,
                               user.id, month, year)
                 /\ all_finalized(variable_budget_entries', collected)
                 /\ \A again \in finalize_result(budget_entries',
                                    variable_budget_entries', user.id, month,
                                    year, FALSE) :
                       /\ again.entries = budget_entries'
                       /\ again.rows = variable_budget_entries']_vars

\* C5: with drafts but no BudgetEntry for the period, finalize succeeds,
\* creates exactly one BudgetEntry for the period holding the per-category
\* draft sums and 0 in every other amount, and finalizes the collected rows.
C5_FinalizeCreatesEntry ==
    [][last'.op = "finalize_variable_budget" =>
       \A c \in Sessions(BudgetUsers) :
          LET user == get_current_user(c, refresh_tokens, now).user
              month == current_month(now)
              year == current_year(now)
              collected == drafts(variable_budget_entries, user.id, month, year)
          IN  (/\ finalize_variable_budget(c, FALSE)
               /\ collected # {}
               /\ entries_of(budget_entries, user.id, month, year) = {})
              => /\ last'.status = 302
                 /\ \E e \in budget_entries' :
                       /\ entries_of(budget_entries', user.id, month, year) = {e}
                       /\ budget_entries' \ {e} = budget_entries
                       /\ e = add_totals(
                                new_budget_entry(e.id, user.id, month, year,
                                                 ZeroForm),
                                category_totals(collected))
                 /\ all_finalized(variable_budget_entries', collected)]_vars

\* C6: a finalize by a user with no draft row in the current period answers
\* with the redirect and changes no BudgetEntry and no variable row.
C6_FinalizeWithoutDraftsIsNoOp ==
    [][last'.op = "finalize_variable_budget" =>
       \A c \in Sessions(BudgetUsers), fails \in BOOLEAN :
          LET user == get_current_user(c, refresh_tokens, now).user
          IN  (/\ finalize_variable_budget(c, fails)
               /\ drafts(variable_budget_entries, user.id,
                         current_month(now), current_year(now)) = {})
              => /\ last'.status = 302
                 /\ UNCHANGED <<budget_entries, variable_budget_entries>>]_vars

\* veera's finalize has just been answered; veera has no row and no entry,
\* while another user's draft is waiting
C6_Witness ==
    /\ last.op = "finalize_variable_budget"
    /\ last.status = 302
    /\ last.uid = 1
    /\ \A r \in variable_budget_entries : r.user_id # 1
    /\ \E r \in variable_budget_entries : r.is_finalized = 0
    /\ budget_entries = {}

\* C7: a finalize either stores everything (every collected row finalized,
\* the BudgetEntry grown by the category sums) or nothing (tables as before
\* the call); when the commit fails it stores nothing.
C7_FinalizeAllOrNothing ==
    [][last'.op = "finalize_variable_budget" =>
       \A c \in Sessions(BudgetUsers), fails \in BOOLEAN :
          LET user == get_current_user(c, refresh_tokens, now).user
              month == current_month(now)
              year == current_year(now)
              collected == drafts(variable_budget_entries, user.id, month, year)
          IN  finalize_variable_budget(c, fails)
              => /\ \/ UNCHANGED <<budget_entries, variable_budget_entries>>
                    \/ /\ all_finalized(variable_budget_entries', collected)
                       /\ sums_added(budget_entries, budget_entries', collected,
                                     user.id, month, year)
                       /\ entries_of(budget_entries', user.id, month, year) # {}
                 /\ fails =>
                       UNCHANGED <<budget_entries, variable_budget_entries>>]_vars

\* a finalize has just failed at its commit (the period has an entry, so the
\* failure is not the new entry's): the drafts are still drafts
C7_Witness ==
    /\ last.op = "finalize_variable_budget"
    /\ last.status = 500
    /\ \E e \in budget_entries, r \in variable_budget_entries :
          /\ e.user_id = last.uid
          /\ r.user_id = last.uid
          /\ r.is_finalized = 0
          /\ r.category = "food"
          /\ e.food = SalaryForm.food


\* C8: however finalize requests for one user and period overlap, no draft
\* row's amount is added twice: each of the four fields of the period's entry
\* (saved from SalaryForm, never overwritten) exceeds the saved value by at
\* most the sum of the period's finalized rows of its category.
C8_NoDoubleCount ==
    \A e \in budget_entries, field \in FinalizeFields :
        e[field] <= SalaryForm[field]
                    + sum_amounts({ r \in variable_budget_entries :
                                      /\ r.user_id = e.user_id
                                      /\ r.month = e.month
                                      /\ r.year = e.year
                                      /\ r.category = CategoryOf(field)
                                      /\ r.is_finalized = 1 })

(* -------------------------- budget ledger claims ----------------------- *)

\* C9: after any sequence of save_budget, update_budget, delete_budget and
\* finalize requests run one at a time, the table holds at most one
\* BudgetEntry row per (user_id, month, year).
C9_OneEntryPerPeriod ==
    \A e1, e2 \in budget_entries :
        (e1.user_id = e2.user_id /\ e1.month = e2.month /\ e1.year = e2.year)
        => e1 = e2

\* veera has an entry for January and one for February, the second created
\* by the finalize that has just been answered
C9_Witness ==
    /\ last.op = "finalize_variable_budget"
    /\ last.status = 302
    /\ \E e1, e2 \in budget_entries :
          /\ e1.user_id = 1 /\ e1.month = "January" /\ e1.salary = 50000
          /\ e2.user_id = 1 /\ e2.month = "February" /\ e2.salary = 0
    /\ \E r \in variable_budget_entries :
          r.month = "February" /\ r.is_finalized = 1

\* C10: a save_budget for a period that has an entry of the user changes no
\* stored row unless confirm_overwrite is "yes"; with "yes" it assigns the
\* submitted form to that row in place and adds no row.
C10_SaveNeedsConfirmation ==
    [][last'.op = "save_budget" =>
       \A c \in Sessions(BudgetUsers) :
          LET user == get_current_user(c, refresh_tokens, now).user
              existing == entries_of(budget_entries, user.id,
                                     current_month(now), current_year(now))
          IN  existing # {} =>
              \A f \in Forms, y \in Confirmations :
                 save_budget(c, f, y)
                 => IF y # "yes"
                    THEN /\ UNCHANGED store
                         /\ last'.status = 200
                    ELSE /\ {e.id : e \in budget_entries'}
                               = {e.id : e \in budget_entries}
                         /\ \A e \in budget_entries \ existing :
                               e \in budget_entries'
                         /\ \A e \in existing :
                               \E d \in budget_entries' :
                                  /\ d.id = e.id
                                  /\ d.user_id = e.user_id
                                  /\ d.month = e.month
                                  /\ d.year = e.year
                                  /\ \A field \in DOMAIN f :
                                        d[field] = f[field]
                         /\ UNCHANGED <<refresh_tokens,
                                        variable_budget_entries>>
      ]_vars

\* a save without confirmation has just been answered with the warning page
\* while the period's entry holds other values than an empty form would give
C10_Witness ==
    /\ last.op = "save_budget"
    /\ last.status = 200
    /\ \E e \in entries_of(budget_entries, last.uid,
                           current_month(now), current_year(now)) :
          e.salary = 50000


(* ------------------------ expense buffer claims ------------------------ *)

\* C11: a finalized variable row is never modified or removed: every request
\* leaves it in the table as it is; update_variable_budget and
\* delete_variable_budget naming it answer 404 and change nothing; a row's
\* description and amount change only while it is a draft.
C11_FinalizedRowsImmutable ==
    [][/\ \A r \in variable_budget_entries :
             r.is_finalized = 1 => r \in variable_budget_entries'
       /\ \A r \in variable_budget_entries, q \in variable_budget_entries' :
             (q.id = r.id /\ (q.description # r.description
                              \/ q.amount # r.amount
                              \/ q.category # r.category))
             => r.is_finalized = 0
       /\ last'.op \in {"update_variable_budget", "delete_variable_budget"} =>
             \A c \in Sessions(BudgetUsers),
                r \in {x \in variable_budget_entries : x.is_finalized = 1} :
                (\/ update_variable_budget(c, r.id, "dinner", 150)
                 \/ delete_variable_budget(c, r.id))
                => /\ last'.status = 404
                   /\ UNCHANGED store]_vars

\* veera's delete has just been answered 404 while every row of the table is
\* a finalized row of veera's, still as it was entered
C11_Witness ==
    /\ last.op = "delete_variable_budget"
    /\ last.status = 404
    /\ last.uid = 1
    /\ variable_budget_entries # {}
    /\ \A r \in variable_budget_entries :
          r.is_finalized = 1 /\ r.user_id = 1 /\ r.description = "lunch"


(* --------------------------- tenant isolation -------------------------- *)

\* C12: a request answered for user A leaves every BudgetEntry and variable
\* row of other users as it was and creates none for them, and shows only
\* rows of A; an edit, update or delete naming a row of another user is
\* answered with the 404 a missing id gets and changes nothing.
C12_TenantIsolation ==
    [][/\ \A e \in (budget_entries' \ budget_entries)
                    \cup (budget_entries \ budget_entries') :
             e.user_id = last'.uid
       /\ \A r \in (variable_budget_entries' \ variable_budget_entries)
                    \cup (variable_budget_entries \ variable_budget_entries') :
             r.user_id = last'.uid
       /\ \A r \in last'.shown : r.user_id = last'.uid
       /\ \A c \in Sessions(BudgetUsers) :
             LET auth == get_current_user(c, refresh_tokens, now) IN
             /\ \A e \in budget_entries \ listed(budget_entries, auth.user.id) :
                   (\/ edit_budget_page(c, e.id)
                    \/ update_budget(c, e.id, ZeroForm)
                    \/ delete_budget(c, e.id))
                   => /\ last' = Respond(last'.op, 404, auth)
                      /\ UNCHANGED store
             /\ \A r \in variable_budget_entries
                         \ listed(variable_budget_entries, auth.user.id) :
                   (\/ update_variable_budget(c, r.id, "dinner", 150)
                    \/ delete_variable_budget(c, r.id))
                   => /\ last' = Respond(last'.op, 404, auth)
                      /\ UNCHANGED store]_vars

\* veera's delete_budget has just been answered 404: every stored entry is
\* babu's, and babu's draft row is in the buffer
C12_Witness ==
    /\ last.op = "delete_budget"
    /\ last.status = 404
    /\ last.uid = 1
    /\ \E e \in budget_entries : e.user_id = 3 /\ e.salary = SalaryForm.salary
    /\ \A e \in budget_entries : e.user_id = 3
    /\ \E r \in variable_budget_entries : r.user_id = 3 /\ r.is_finalized = 0


(* ------------------------- unauthenticated requests -------------------- *)

\* C13: a request to an authenticated endpoint for which get_current_user
\* returns None is answered with the redirect to /login, never with an error
\* status, and changes no stored row.
C13_UnauthenticatedRedirects ==
    [][(last'.uid = NoUser.id /\ last'.op \notin {"none", "login", "logout"})
       => /\ last'.status = 302
          /\ UNCHANGED store]_vars


(* ------------------------------- logout -------------------------------- *)

\* C14: logout always answers with the redirect that deletes the cookies;
\* with no refresh cookie, with a token that has no ledger row or with one
\* whose row is revoked already it leaves the ledger as it was; and revoking
\* the token it was given once more gives the same ledger.
C14_LogoutIdempotent ==
    [][last'.op = "logout" =>
       /\ last'.status = 302
       /\ last'.delete_cookies
       /\ UNCHANGED <<budget_entries, variable_budget_entries>>
       /\ \A refresh \in {c.refresh : c \in RequestCookies} :
             refresh_tokens' = (IF refresh # NoToken
                                THEN Revoke(refresh_tokens, refresh)
                                ELSE refresh_tokens)
             => /\ (\A r \in refresh_tokens :
                       r.token = refresh => r.is_revoked = 1)
                   => refresh_tokens' = refresh_tokens
                /\ Revoke(refresh_tokens', refresh) = refresh_tokens']_vars

\* a logout has just been answered and the ledger holds a revoked row beside
\* an unrevoked one of the same user
C14_Witness ==
    /\ last.op = "logout"
    /\ last.status = 302
    /\ \E r, q \in refresh_tokens :
          r.is_revoked = 1 /\ q.is_revoked = 0 /\ q.user_id = r.user_id

(* ------------------------- C15: budget balance ------------------------- *)

IncomeFields == {"salary", "freelancing_one", "freelancing_two"}

ExpenseFields ==
    {"mobile_recharge", "wifi", "emi_one", "emi_two", "emi_three", "emi_four",
     "food", "rent", "creditcard_one", "creditcard_two", "shopping", "travel",
     "other_expenses"}

InvestmentFields == {"sip", "fixed_deposit_one", "fixed_deposit_two", "etf"}

RECURSIVE sum_of_fields(_, _)
sum_of_fields(entry, fields) ==
    IF fields = {} THEN 0
    ELSE LET f == CHOOSE g \in fields : TRUE
         IN  entry[f] + sum_of_fields(entry, fields \ {f})

\* income minus the 13 expenses minus the 4 investments
stated_balance(entry) ==
    sum_of_fields(entry, IncomeFields) - sum_of_fields(entry, ExpenseFields)
    - sum_of_fields(entry, InvestmentFields)

\* an answered report of veera
reported(op) ==
    /\ last.op = op
    /\ last.status = 200
    /\ DOMAIN last.data # {"error"}

\* C15: the budget balance a report gives for an entry is income (salary +
\* freelancing_one + freelancing_two) minus the 13 expense fields minus the
\* 4 investment fields, in the yearly rollup (one balance per month with an
\* entry) and in the monthly analysis (the month's balance); an entry whose
\* fields are all 0 has balance 0.
C15_BudgetBalance ==
    /\ reported("get_yearly_chart_data") =>
          /\ Len(last.data.monthly_totals.budget_balance) = Len(last.data.months)
          /\ \A i \in 1..Len(last.data.months) :
                \A e \in budget_entries :
                   (e.user_id = last.uid /\ e.year = last.data.year
                    /\ e.month = last.data.months[i])
                   => /\ last.data.monthly_totals.budget_balance[i]
                           = stated_balance(e)
                      /\ (\A f \in DOMAIN ZeroForm : e[f] = 0)
                         => last.data.monthly_totals.budget_balance[i] = 0
    /\ reported("get_monthly_analysis_data") =>
          \A e \in budget_entries :
             (e.user_id = last.uid /\ e.year = last.data.year
              /\ e.month = last.data.month)
             => /\ last.data.current.budget_balance = stated_balance(e)
                /\ (\A f \in DOMAIN ZeroForm : e[f] = 0)
                   => last.data.current.budget_balance = 0

\* the yearly rollup of 2025 holds an all-zero January (balance 0) and a
\* February with rent, two incomes and two investments
C15_Witness ==
    /\ reported("get_yearly_chart_data")
    /\ last.data.months = <<"January", "February">>
    /\ last.data.monthly_totals.budget_balance = <<0, 3500>>
    /\ \E e \in budget_entries :
          e.month = "February" /\ e.rent = 12000 /\ e.etf = 4000

(* --------------------- C16: month-over-month percent ------------------- *)

\* two fractions of the same value
same_value(x, y) == x.num * y.den = y.num * x.den

\* the percentage the statement gives: 0 without a previous entry or with a
\* previous total of 0; otherwise (current - previous) / previous * 100
stated_percent(current, previous, has_previous) ==
    IF ~has_previous \/ previous = 0 THEN Zero
    ELSE Fraction((current - previous) * 100, previous)

\* C16: in the monthly analysis, each of income_change_percent,
\* expenses_change_percent and investments_change_percent is exactly 0 when
\* the previous month has no entry or its total is 0, and otherwise equals
\* (current - previous) / previous * 100.
C16_ChangePercent ==
    reported("get_monthly_analysis_data") =>
       LET d == last.data
       IN  /\ d.comparisons.income_change_percent.den # 0
           /\ d.comparisons.expenses_change_percent.den # 0
           /\ d.comparisons.investments_change_percent.den # 0
           /\ same_value(d.comparisons.income_change_percent,
                         stated_percent(d.current.income, d.previous.income,
                                        d.previous.has_data))
           /\ same_value(d.comparisons.expenses_change_percent,
                         stated_percent(d.current.expenses, d.previous.expenses,
                                        d.previous.has_data))
           /\ same_value(d.comparisons.investments_change_percent,
                         stated_percent(d.current.investments, d.previous.investments,
                                        d.previous.has_data))

(* --------------------------- C17: yearly rollup ------------------------ *)

\* the months of `year`, in calendar order, in which the user has an entry
RECURSIVE months_with_entry(_, _, _)
months_with_entry(uid, year, i) ==
    IF i > Len(MonthNames) THEN <<>>
    ELSE (IF \E e \in budget_entries :
                e.user_id = uid /\ e.year = year /\ e.month = MonthNames[i]
          THEN <<MonthNames[i]>> ELSE <<>>)
         \o months_with_entry(uid, year, i + 1)

\* C17: the yearly rollup has exactly one data point per calendar month
\* with an entry, in calendar order, and none for other months;
\* months_with_data is their number; each average is the year's sum over
\* max(months with data, 1), so an empty year gives sums 0 and averages 0.
C17_YearlyRollup ==
    reported("get_yearly_chart_data") =>
       LET d == last.data
           n == Cardinality({ e \in budget_entries :
                                e.user_id = last.uid /\ e.year = d.year })
           series == <<d.monthly_totals.income, d.monthly_totals.expenses,
                       d.monthly_totals.investments,
                       d.monthly_totals.budget_balance>>
           sums == <<d.summary.total_income, d.summary.total_expenses,
                     d.summary.total_investments,
                     d.summary.total_budget_balance>>
           averages == <<d.summary.average_monthly_income,
                         d.summary.average_monthly_expenses,
                         d.summary.average_monthly_investments,
                         d.summary.average_monthly_budget_balance>>
       IN  /\ d.months = months_with_entry(last.uid, d.year, 1)
           /\ d.summary.months_with_data = n
           /\ \A k \in 1..4 :
                 /\ Len(series[k]) = n
                 /\ averages[k].den # 0
                 /\ same_value(averages[k],
                               Fraction(sums[k], IF n = 0 THEN 1 ELSE n))
                 /\ n = 0 => sums[k] = 0 /\ same_value(averages[k], Zero)

\* entries in January and March 2025 only: two data points, February absent
C17_Witness ==
    /\ reported("get_yearly_chart_data")
    /\ last.data.year = 2025
    /\ last.data.months = <<"January", "March">>
    /\ last.data.summary.months_with_data = 2
    /\ same_value(last.data.summary.average_monthly_income,
                  Fraction(75000, 2))

(* ------------------------ C18: resolution order ------------------------ *)

\* every token a client can put in a cookie: none, issued, forged
PresentableTokens ==
    {c.access : c \in RequestCookies} \cup {c.refresh : c \in RequestCookies}

\* the access cookie is present and verifies: signature, expiry, type
access_verifies(token) ==
    /\ token # NoToken
    /\ token.key = SECRET_KEY
    /\ token.exp >= now
    /\ token.type = "access"

\* C18: get_current_user resolves a present access cookie that verifies to
\* the user its subject names, whatever the refresh cookie is; otherwise a
\* present refresh cookie that verify_refresh_token accepts to its owner;
\* otherwise nobody.  An access cookie that does not verify (expired,
\* forged, of the wrong type) never keeps a valid refresh cookie from
\* resolving.
C18_ResolutionOrder ==
    \A access \in PresentableTokens, refresh \in PresentableTokens :
       LET resolved == get_current_user([access |-> access,
                                         refresh |-> refresh],
                                        refresh_tokens, now)
           owner == verify_refresh_token(refresh, refresh_tokens, now)
       IN  IF access_verifies(access)
           THEN /\ resolved.user = UserByName(access.sub)
                /\ resolved.via = "access"
                /\ resolved = get_current_user([access |-> access,
                                                refresh |-> NoToken],
                                               refresh_tokens, now)
           ELSE IF refresh # NoToken /\ owner # NoUser
           THEN /\ resolved.user = owner
                /\ resolved.via = "refresh"
           ELSE /\ resolved.user = NoUser
                /\ resolved.via = "none"

\* a dashboard request answered through the refresh cookie of a browser
\* whose access cookie has expired
C18_Witness ==
    /\ last.op = "budget_page"
    /\ last.status = 200
    /\ last.via = "refresh"
    /\ \E c \in RequestCookies :
          /\ c.access # NoToken
          /\ c.access.key = SECRET_KEY
          /\ c.access.exp < now
          /\ get_current_user(c, refresh_tokens, now).user.id = last.uid
          /\ get_current_user(c, refresh_tokens, now).via = "refresh"

(* -------------------------- C19: token kinds --------------------------- *)

\* the refresh tokens the server's key can sign for a user at an instant of
\* the grid, on the ledger or not
SignedRefreshTokens ==
    { encode_refresh_token(u.username, u.id, t) : u \in Users, t \in TimeGrid }

\* C19: a refresh token in the access_token cookie is never accepted as an
\* access token, an access token in the refresh_token cookie is never
\* accepted by verify_refresh_token, and a correctly signed, unexpired
\* refresh token with no unrevoked ledger row is rejected just as a forged
\* one is.
C19_TokenKinds ==
    /\ \A token \in PresentableTokens \cup SignedRefreshTokens :
          token.type = "refresh" =>
             get_current_user([access |-> token, refresh |-> NoToken],
                              refresh_tokens, now).user = NoUser
    /\ \A r \in refresh_tokens :
          /\ verify_refresh_token(IssuedCookies(r).access,
                                  refresh_tokens, now) = NoUser
          /\ get_current_user([access |-> NoToken,
                               refresh |-> IssuedCookies(r).access],
                              refresh_tokens, now).user = NoUser
    /\ \A token \in SignedRefreshTokens :
          (/\ token.exp >= now
           /\ ~ \E r \in refresh_tokens :
                   r.token = token /\ r.is_revoked = 0)
          => /\ verify_refresh_token(token, refresh_tokens, now) = NoUser
             /\ verify_refresh_token(token, refresh_tokens, now)
                  = verify_refresh_token(ForgedCookies.refresh,
                                         refresh_tokens, now)
             /\ get_current_user([access |-> NoToken, refresh |-> token],
                                 refresh_tokens, now)
                  = get_current_user([access |-> NoToken,
                                      refresh |-> ForgedCookies.refresh],
                                     refresh_tokens, now)

\* a browser holding its two cookies exchanged is sent to /login while the
\* ledger row of its refresh token is unrevoked and both tokens unexpired
C19_Witness ==
    /\ last.op = "budget_page"
    /\ last.status = 302
    /\ \E r \in refresh_tokens :
          /\ r.is_revoked = 0
          /\ IssuedCookies(r).access.exp >= now
          /\ get_current_user([access |-> r.token,
                               refresh |-> IssuedCookies(r).access],
                              refresh_tokens, now).user = NoUser
          /\ get_current_user(IssuedCookies(r), refresh_tokens, now).user
               # NoUser

(* ----------------------------- C20: expiry ----------------------------- *)

\* C20: an access token resolves an identity only within 1440 minutes of
\* its issuance and a refresh token only within 365 days (525600 minutes)
\* of its issuance; after that verify_refresh_token and get_current_user
\* reject the token even though its ledger row is still unrevoked.
C20_Expiry ==
    \A r \in refresh_tokens :
       LET issued == r.token.exp - 525600
           c == IssuedCookies(r)
           by_access == get_current_user([c EXCEPT !.refresh = NoToken],
                                         refresh_tokens, now)
           by_refresh == get_current_user([c EXCEPT !.access = NoToken],
                                          refresh_tokens, now)
           owner == verify_refresh_token(r.token, refresh_tokens, now)
       IN  /\ c.access.exp = issued + 1440
           /\ by_access.user # NoUser <=> now <= issued + 1440
           /\ owner # NoUser <=> (now <= issued + 525600 /\ r.is_revoked = 0)
           /\ by_refresh.user = owner
           /\ now > issued + 525600 =>
                 get_current_user(c, refresh_tokens, now).user = NoUser

\* one minute after the 365 days of a refresh token whose row is unrevoked,
\* the dashboard request carrying it is sent to /login
C20_Witness ==
    /\ last.op = "budget_page"
    /\ last.status = 302
    /\ now = 525601
    /\ refresh_tokens # {}
    /\ \A r \in refresh_tokens :
          /\ r.is_revoked = 0
          /\ r.token.exp = 525600
          /\ get_current_user(IssuedCookies(r), refresh_tokens, now).user
               = NoUser

(* --------------------------- C21: login ledger ------------------------- *)

\* C21: every login with valid credentials completes (302, both cookies
\* set) and adds exactly one ledger row, owned by the user, unrevoked and
\* holding the refresh token issued; after any sequence of logins, several
\* of one user at one clock instant included, the ledger rows hold
\* pairwise distinct token strings.
C21_LoginAddsOneRow ==
    [][(last'.op = "login" /\ last'.uid # NoUser.id)
       => /\ last'.status = 302
          /\ last'.set_refresh # NoToken
          /\ refresh_tokens' = refresh_tokens \cup
                 { [user_id |-> last'.uid, token |-> last'.set_refresh,
                    is_revoked |-> 0] }
          /\ Cardinality(refresh_tokens') = Cardinality(refresh_tokens) + 1
          /\ \A r, q \in refresh_tokens' : r.token = q.token => r = q]_vars

(* ------------------------ C22: concurrent saves ------------------------ *)

\* C22: a save_budget request that found no entry for the period inserts
\* one at its commit even when another request has inserted one for the
\* same period since its check; so two concurrent saves of one user for
\* one month, both past the check before either commits, leave two
\* entries for one (user_id, month, year).
C22_ConcurrentSavesBothInsert ==
    [][\A q \in savers :
          (savers' = savers \ {q} /\ q.existing = {})
          => /\ Cardinality(budget_entries') = Cardinality(budget_entries) + 1
             /\ \E e \in budget_entries' \ budget_entries :
                   /\ e.user_id = q.auth.user.id
                   /\ e.month = q.month
                   /\ e.year = q.year
                   /\ \A f \in DOMAIN q.form : e[f] = q.form[f]
             /\ budget_entries \subseteq budget_entries']_vars

\* both requests have committed: two entries for veera's January 2025
C22_Witness ==
    /\ savers = {}
    /\ last.op = "save_budget"
    /\ last.status = 302
    /\ \E e, d \in budget_entries :
          /\ e.id # d.id
          /\ e.user_id = d.user_id
          /\ e.month = d.month
          /\ e.year = d.year

(* --------------------- C23: unrecognised categories -------------------- *)

\* the categories the if/elif chain of finalize knows
RecognisedCategories == {"food", "travel", "shopping", "other"}

\* C23: when finalize collects a draft row whose category is none of food,
\* travel, shopping, other, the row adds nothing to any BudgetEntry field
\* (the four fields grow by the sums of their own categories only, every
\* other field keeps its value) and the row is marked is_finalized = 1, so
\* that no later finalize collects it.
C23_UnrecognisedCategoryDropped ==
    [][last'.op = "finalize_variable_budget" =>
       \A c \in Sessions(BudgetUsers) :
          LET user == get_current_user(c, refresh_tokens, now).user
              month == current_month(now)
              year == current_year(now)
              collected == drafts(variable_budget_entries, user.id, month, year)
              dropped == { r \in collected :
                             r.category \notin RecognisedCategories }
          IN  (finalize_variable_budget(c, FALSE) /\ dropped # {})
              => /\ sums_added(budget_entries, budget_entries', collected,
                               user.id, month, year)
                 /\ \A field \in DOMAIN ZeroForm \ FinalizeFields :
                       field_value(budget_entries', user.id, month, year, field)
                       = field_value(budget_entries, user.id, month, year, field)
                 /\ all_finalized(variable_budget_entries', dropped)
                 /\ \A r \in drafts(variable_budget_entries', user.id,
                                     month, year) :
                       \A d \in dropped : r.id # d.id]_vars

(* ------------------------ C24: the previous month ---------------------- *)

\* the calendar month before each month
PrecedingMonth ==
    [January |-> "December", February |-> "January", March |-> "February",
     April |-> "March", May |-> "April", June |-> "May", July |-> "June",
     August |-> "July", September |-> "August", October |-> "September",
     November |-> "October", December |-> "November"]

\* C24: the monthly analysis of (year, month) compares with the entry of
\* the calendar month just before: the same year for February to December,
\* December of the year before for January.  The previous totals are that
\* entry's and the absolute changes are current minus previous; when there
\* is no such entry, has_data is false and every absolute change is 0.
C24_PreviousMonth ==
    reported("get_monthly_analysis_data") =>
       LET d == last.data
           year == IF d.month = "January" THEN d.year - 1 ELSE d.year
           before == { e \in budget_entries :
                         /\ e.user_id = last.uid
                         /\ e.month = PrecedingMonth[d.month]
                         /\ e.year = year }
       IN  /\ d.previous.month = PrecedingMonth[d.month]
           /\ d.previous.year = year
           /\ d.previous.has_data = (before # {})
           /\ \A e \in before :
                 /\ d.previous.income = sum_of_fields(e, IncomeFields)
                 /\ d.previous.expenses = sum_of_fields(e, ExpenseFields)
                 /\ d.previous.investments = sum_of_fields(e, InvestmentFields)
                 /\ d.previous.budget_balance = stated_balance(e)
                 /\ d.comparisons.income_change
                      = d.current.income - d.previous.income
                 /\ d.comparisons.expenses_change
                      = d.current.expenses - d.previous.expenses
                 /\ d.comparisons.investments_change
                      = d.current.investments - d.previous.investments
                 /\ d.comparisons.budget_balance_change
                      = d.current.budget_balance - d.previous.budget_balance
           /\ before = {} =>
                 /\ d.comparisons.income_change = 0
                 /\ d.comparisons.expenses_change = 0
                 /\ d.comparisons.investments_change = 0
                 /\ d.comparisons.budget_balance_change = 0

\* the analysis of January 2026 set against the entry of December 2025,
\* while the ledger has no entry for December 2026
C24_Witness ==
    /\ reported("get_monthly_analysis_data")
    /\ last.data.month = "January"
    /\ last.data.year = 2026
    /\ last.data.previous.has_data
    /\ last.data.previous.month = "December"
    /\ last.data.previous.year = 2025
    /\ last.data.previous.income = 50000
    /\ last.data.comparisons.income_change = -25000

(* --------------------- C25: largest expense category ------------------- *)

\* the seven categories in their fixed order, with what each one sums
CategoryOrder ==
    << [name |-> "Rent", fields |-> {"rent"}],
       [name |-> "Food", fields |-> {"food"}],
       [name |-> "EMIs",
        fields |-> {"emi_one", "emi_two", "emi_three", "emi_four"}],
       [name |-> "Credit Cards",
        fields |-> {"creditcard_one", "creditcard_two"}],
       [name |-> "Shopping", fields |-> {"shopping"}],
       [name |-> "Travel", fields |-> {"travel"}],
       [name |-> "Other", fields |-> {"other_expenses"}] >>

\* C25: largest_expense_category is the (name, value) pair of the greatest
\* value among Rent, Food, EMIs, Credit Cards, Shopping, Travel and Other;
\* among several categories of the greatest value it is the first in that
\* order, so an all-zero entry gives Rent.
C25_LargestExpenseCategory ==
    reported("get_monthly_analysis_data") =>
       \A e \in budget_entries :
          (e.user_id = last.uid /\ e.year = last.data.year
           /\ e.month = last.data.month)
          => LET largest == last.data.analytics.largest_expense_category
                 value(i) == sum_of_fields(e, CategoryOrder[i].fields)
             IN  /\ \E i \in 1..Len(CategoryOrder) :
                       /\ largest = <<CategoryOrder[i].name, value(i)>>
                       /\ \A j \in 1..Len(CategoryOrder) : value(j) <= value(i)
                       /\ \A j \in 1..(i - 1) : value(j) < value(i)
                 /\ (\A f \in DOMAIN ZeroForm : e[f] = 0)
                    => largest = <<"Rent", 0>>

\* the EMIs, the credit cards and the shopping of the month all come to
\* 8000, above the rent: the answer is the EMIs
C25_Witness ==
    /\ reported("get_monthly_analysis_data")
    /\ last.data.analytics.largest_expense_category = <<"EMIs", 8000>>
    /\ \E e \in budget_entries :
          /\ e.month = last.data.month
          /\ e.year = last.data.year
          /\ e.creditcard_one = 8000
          /\ e.shopping = 8000

(* ------------------------- C26: counted once --------------------------- *)

\* the requests of the expense buffer
BufferRequests ==
    {"add_variable_budget", "update_variable_budget",
     "delete_variable_budget", "finalize_variable_budget"}

\* the rows a step turns from draft to finalized, as they were before it
newly_finalized(rows_before, rows_after) ==
    { r \in rows_before :
        /\ r.is_finalized = 0
        /\ r \notin rows_after
        /\ [r EXCEPT !.is_finalized = 1] \in rows_after }

\* the (user, month, year) of the rows and entries of a state
Periods(entries, rows) ==
    { [user_id |-> x.user_id, month |-> x.month, year |-> x.year] :
        x \in entries \cup rows }

\* C26: no request turns a finalized row back into a draft (a finalized row
\* stays as it is), and with requests served one at a time a row's amount
\* reaches a BudgetEntry at most once: an add, update, delete or finalize
\* request changes food, travel, shopping and other_expenses only by the
\* amounts, as they are at that moment, of the rows it turns from draft to
\* finalized.
C26_CountedOnce ==
    [][/\ \A r \in variable_budget_entries :
            r.is_finalized = 1 => r \in variable_budget_entries'
       /\ last'.op \in BufferRequests =>
            LET newly == newly_finalized(variable_budget_entries,
                                         variable_budget_entries')
            IN  \A p \in Periods(budget_entries \cup budget_entries',
                                  variable_budget_entries) :
                   \A field \in FinalizeFields :
                      field_value(budget_entries', p.user_id, p.month, p.year,
                                  field)
                      - field_value(budget_entries, p.user_id, p.month,
                                    p.year, field)
                      = sum_amounts({ r \in newly :
                                        /\ r.user_id = p.user_id
                                        /\ r.month = p.month
                                        /\ r.year = p.year
                                        /\ r.category = CategoryOf(field) })]_vars

\* a travel expense entered as 1000 and corrected to 150 before the finalize
\* that has just been answered: the entry's travel is 150
C26_Witness ==
    /\ last.op = "finalize_variable_budget"
    /\ last.status = 302
    /\ \E r \in variable_budget_entries :
          /\ r.category = "travel"
          /\ r.amount = 150
          /\ r.is_finalized = 1
          /\ field_value(budget_entries, r.user_id, r.month, r.year, "travel")
               = 150

(* ------------------ C27: access tokens outlive logout ------------------ *)

\* C27: logout does not invalidate the access token.  After the refresh
\* token of a login is revoked, a request presenting the access token of
\* that login resolves to its user as long as the access token is
\* unexpired, whatever the ledger holds; a request that has to go through
\* the refresh path (no access cookie, or an expired one) resolves nobody.
C27_AccessOutlivesLogout ==
    \A r \in refresh_tokens :
       r.is_revoked = 1 =>
          LET c == IssuedCookies(r)
              ledgers == {refresh_tokens, {},
                          {[q EXCEPT !.is_revoked = 1] : q \in refresh_tokens}}
          IN  /\ now <= c.access.exp =>
                    \A ledger \in ledgers, refresh \in {NoToken, r.token} :
                       LET resolved ==
                               get_current_user([c EXCEPT !.refresh = refresh],
                                                ledger, now)
                       IN  /\ resolved.user = UserById(r.user_id)
                           /\ resolved.user # NoUser
                           /\ resolved.via = "access"
              /\ get_current_user([c EXCEPT !.access = NoToken],
                                  refresh_tokens, now).user = NoUser
              /\ now > c.access.exp =>
                    get_current_user(c, refresh_tokens, now).user = NoUser

\* the dashboard has just been served to a user every one of whose ledger
\* rows is revoked: the request got in on its access token
C27_Witness ==
    /\ last.op = "budget_page"
    /\ last.status = 200
    /\ last.via = "access"
    /\ \E r \in refresh_tokens : r.user_id = last.uid
    /\ \A r \in refresh_tokens : r.user_id = last.uid => r.is_revoked = 1

(* ------------------- C28: overwrite after finalize --------------------- *)

\* the sum of the finalized rows of the entry's period and of the category
\* of `field`
finalized_sum(rows, entry, field) ==
    sum_amounts({ r \in rows : /\ r.user_id = entry.user_id
                               /\ r.month = entry.month
                               /\ r.year = entry.year
                               /\ r.is_finalized = 1
                               /\ r.category = CategoryOf(field) })

\* the entry `e` holds the form's value in each of the four fields after
\* the step, no variable row has changed, and a finalize right afterwards
\* adds nothing for the rows already finalized
overwritten(e, form) ==
    /\ \E d \in budget_entries' :
          /\ d.id = e.id
          /\ \A field \in FinalizeFields : d[field] = form[field]
    /\ UNCHANGED variable_budget_entries
    /\ \A out \in finalize_result(budget_entries', variable_budget_entries',
                                   e.user_id, e.month, e.year, FALSE) :
          sums_added(budget_entries', out.entries,
                     drafts(variable_budget_entries', e.user_id, e.month,
                            e.year),
                     e.user_id, e.month, e.year)

\* C28: a confirmed save_budget overwrite, or an update_budget, of an entry
\* that finalize has added to sets food, travel, shopping and
\* other_expenses to the submitted values: what finalize added is gone,
\* the rows that contributed stay finalized, and a later finalize adds the
\* remaining drafts only.
C28_OverwriteDiscardsAdded ==
    [][last'.op \in {"save_budget", "update_budget"} =>
       \A c \in Sessions({"veera"}), f \in Forms :
          LET user == get_current_user(c, refresh_tokens, now).user
          IN  /\ \A e \in entries_of(budget_entries, user.id,
                                      current_month(now), current_year(now)) :
                    (/\ save_budget(c, f, "yes")
                     /\ \E field \in FinalizeFields :
                           finalized_sum(variable_budget_entries, e, field) # 0)
                    => overwritten(e, f)
              /\ \A e \in listed(budget_entries, user.id) :
                    (/\ update_budget(c, e.id, f)
                     /\ \E field \in FinalizeFields :
                           finalized_sum(variable_budget_entries, e, field) # 0)
                    => overwritten(e, f)]_vars

\* an edit has just been answered: the entry's food is below the sum of the
\* month's finalized food rows, and no draft is left to add
C28_Witness ==
    /\ last.op = "update_budget"
    /\ last.status = 302
    /\ \A r \in variable_budget_entries : r.is_finalized = 1
    /\ \E e \in budget_entries :
          /\ finalized_sum(variable_budget_entries, e, "food") > 0
          /\ e.food < finalized_sum(variable_budget_entries, e, "food")

(* ------------------------ C29: finalize's frame ------------------------ *)

\* C29: a finalize by user U in the period (month, year) of the clock
\* leaves as they are every row and entry of other users, every entry and
\* variable row of U of another period, U's already finalized rows of the
\* period, and, in the period's entry, every field but food, travel,
\* shopping and other_expenses.
C29_FinalizeFrame ==
    [][last'.op = "finalize_variable_budget" =>
       LET month == current_month(now)
           year == current_year(now)
           here(x) == /\ x.user_id = last'.uid
                      /\ x.month = month
                      /\ x.year = year
       IN  /\ \A r \in variable_budget_entries :
                 (~ here(r) \/ r.is_finalized = 1)
                 => r \in variable_budget_entries'
           /\ \A r \in variable_budget_entries' :
                 (~ here(r) \/ r \in variable_budget_entries)
                 \/ \E q \in variable_budget_entries :
                       r = [q EXCEPT !.is_finalized = 1]
           /\ \A e \in budget_entries : ~ here(e) => e \in budget_entries'
           /\ \A e \in budget_entries' : ~ here(e) => e \in budget_entries
           /\ \A e \in budget_entries :
                 here(e) => \E d \in budget_entries' :
                               \A f \in DOMAIN e \ FinalizeFields : d[f] = e[f]
           /\ UNCHANGED refresh_tokens]_vars

\* veera's finalize of February has just added the February lunch to the
\* February entry; the January entry and the January draft are as they
\* were
C29_Witness ==
    /\ last.op = "finalize_variable_budget"
    /\ last.status = 302
    /\ current_month(now) = "February"
    /\ \E e \in budget_entries :
          e.user_id = last.uid /\ e.month = "January" /\ e.food = 5000
    /\ \E e \in budget_entries :
          e.user_id = last.uid /\ e.month = "February" /\ e.food > 5000
    /\ \E r \in variable_budget_entries :
          r.user_id = last.uid /\ r.month = "January" /\ r.is_finalized = 0
    /\ \E r \in variable_budget_entries :
          r.user_id = last.uid /\ r.month = "February" /\ r.is_finalized = 1

(* ---------------------- C30: drafts of past months --------------------- *)

\* the row or entry belongs to the month and year of the clock at time t
current_at(x, t) == x.month = current_month(t) /\ x.year = current_year(t)

\* C30: a variable row is created a draft of the clock's month and year,
\* and finalize turns only drafts of the clock's month and year into
\* finalized rows, adding their amounts to the entry of that month; the
\* clock never returns to a past month, so a row still a draft when its
\* month ends stays a draft and its amount reaches no BudgetEntry.
C30_StaleDraftsStay ==
    [][LET newly == newly_finalized(variable_budget_entries,
                                    variable_budget_entries')
       IN  /\ \A r \in variable_budget_entries' :
                 (\A q \in variable_budget_entries : q.id # r.id)
                 => r.is_finalized = 0 /\ current_at(r, now)
           /\ \A r \in newly : current_at(r, now)
           /\ \A r \in variable_budget_entries :
                 (r.is_finalized = 0 /\ ~ current_at(r, now))
                 => /\ ~ current_at(r, now')
                    /\ \A q \in variable_budget_entries' :
                          q.id = r.id => q.is_finalized = 0
           /\ last'.op = "finalize_variable_budget" =>
                 \A p \in Periods(budget_entries \cup budget_entries',
                                  variable_budget_entries) :
                    \A field \in FinalizeFields :
                       field_value(budget_entries', p.user_id, p.month,
                                   p.year, field)
                       = field_value(budget_entries, p.user_id, p.month,
                                     p.year, field)
                         + (IF current_at(p, now)
                            THEN sum_amounts({ r \in newly :
                                     /\ r.user_id = p.user_id
                                     /\ r.category = CategoryOf(field) })
                            ELSE 0)]_vars

\* January 2026: veera's finalize has just added this month's lunch to
\* this month's entry, and the draft of January 2025 is still a draft
C30_Witness ==
    /\ last.op = "finalize_variable_budget"
    /\ last.status = 302
    /\ current_month(now) = "January"
    /\ current_year(now) = 2026
    /\ \E r \in variable_budget_entries :
          r.month = "January" /\ r.year = 2025 /\ r.is_finalized = 0
    /\ \E r \in variable_budget_entries :
          r.month = "January" /\ r.year = 2026 /\ r.is_finalized = 1
    /\ \E e \in budget_entries :
          e.month = "January" /\ e.year = 2026 /\ e.food \in {5150, 5300}

====
